---- MODULE Spec2Model ----
(***************************************************************************)
(* A model of the ml5 wrappers: the COCO-SSD object detector, the BodyPix  *)
(* segmenter, the KNN classifier and the argument handling of              *)
(* DiyNeuralNetwork.train.  Every wrapper is a class whose methods run on  *)
(* the JavaScript event loop: an async method runs synchronously to its    *)
(* first await and each continuation is one step of the model.             *)
(***************************************************************************)
EXTENDS Integers, Sequences, FiniteSets, TLC

VARIABLES
    \* CocoSsd
    cocoPhase,        \* "none" before new CocoSsd(), "constructed" after
    cocoLoad,         \* progress of loadModel(): idle, loading, stored, done, failed
    cocoSsdModel,     \* this.cocoSsdModel: "undefined" or "loaded"
    cocoReady,        \* state of the promise this.ready
    cocoCtorLog,      \* invocations of the constructor callback
    cocoCalls,        \* the detect() calls made so far, one record each
    cocoModelCalls,   \* the calls made on this.cocoSsdModel.detect
    \* BodyPix
    bpPhase,          \* "none" before bodyPix(), "constructed" after
    bpArgs,           \* of the arguments bodyPix() was called with: whether one
                      \* was a function, and the options object among them
    bpReturned,       \* what bodyPix() returned: "instance" or "ready"
    bpVideo,          \* this.video and its readyState
    bpOnLoadedData,   \* the call whose resolve this.video.onloadeddata holds (0: none)
    bpConfig,         \* this.config
    bpModel,          \* this.model: "null" or "loaded"
    bpModelReady,     \* this.modelReady
    bpLoad,           \* progress of loadModel(): idle, loading, done, failed
    bpReady,          \* the promise this.ready: its state and the value it resolved to
    bpCtorLog,        \* invocations of the constructor callback
    bpCalls,          \* the segment() / segmentWithParts() calls made so far
    bpEstimates,      \* the calls made on this.model.estimate*Segmentation
    \* KNN
    mapStringToIndex, \* this.mapStringToIndex
    knnDataset,       \* the underlying classifier's examples, by class index
    knnCall,          \* the method called last on the instance; for addExample
                      \* its argument and the class index it passed on
    knnInFlight,      \* the classify() calls waiting for predictClass
    knnSettled,       \* the classify() call settled by the last step, if any
    knnSaved,         \* the JSON written by the last save(), or no file, with
                      \* the classifier's state at the time of that save()
    knnLoaded,        \* whether load() has run on the instance
    knnSaves,         \* the number of save() calls made

    \* DiyNeuralNetwork
    nnTrainCalls,     \* the train() calls made: the arguments and what
                      \* trainInternal received

    \* A DiyNeuralNetwork instance
    dnnPhase,         \* "none" before neuralNetwork() is called
    dnnArgs,          \* the arguments neuralNetwork() was called with
    dnnOptions,       \* this.options
    dnnCallback,      \* this.callback
    dnnReady,         \* this.ready: false, true or a promise's state
    dnnLoad,          \* how far the load started by init() has come
    dnnCtorLog,       \* the calls made of the constructor callback
    dnnSaves,         \* the save() calls made: the files saved so far and
                      \* the calls made of the user's callback

    \* NeuralNetworkData.findEntries
    feData,           \* the JSON object findEntries is called with
    feResult,         \* what it returned, once it has been called

    \* DiyNeuralNetwork.addData and the NeuralNetworkData of the instance
    nndRaw,           \* this.neuralNetworkData.data.raw
    nndCall,          \* the last addData() call: its arguments, the labels
                      \* it settled on and the error it threw, if any
    nndCount,         \* the number of addData() calls made

    \* DiyNeuralNetwork: the preparation of the training data
    dataTraining,     \* this.data.training
    isMetadataReady,  \* this.neuralNetworkData.isMetadataReady
    isWarmedUp,       \* this.neuralNetworkData.isWarmedUp
    trnCalls          \* the trainInternal() calls made: the rows of data.raw
                      \* at the call and the rows of the tensors handed to
                      \* this.neuralNetwork.train

cocoVars == <<cocoPhase, cocoLoad, cocoSsdModel, cocoReady, cocoCtorLog,
              cocoCalls, cocoModelCalls>>
bpVars == <<bpPhase, bpArgs, bpReturned, bpVideo, bpOnLoadedData, bpConfig,
            bpModel, bpModelReady, bpLoad, bpReady, bpCtorLog, bpCalls, bpEstimates>>
knnVars == <<mapStringToIndex, knnDataset, knnCall, knnInFlight, knnSettled,
             knnSaved, knnLoaded, knnSaves>>
nnVars == <<nnTrainCalls>>
dnnVars == <<dnnPhase, dnnArgs, dnnOptions, dnnCallback, dnnReady, dnnLoad,
             dnnCtorLog, dnnSaves>>
feVars == <<feData, feResult>>
nndVars == <<nndRaw, nndCall, nndCount>>
trnVars == <<dataTraining, isMetadataReady, isWarmedUp, trnCalls>>
notCocoVars == <<bpVars, knnVars, nnVars, dnnVars, feVars, nndVars,
    trnVars>>
notBpVars == <<cocoVars, knnVars, nnVars, dnnVars, feVars, nndVars,
    trnVars>>
notKnnVars == <<cocoVars, bpVars, nnVars, dnnVars, feVars, nndVars,
    trnVars>>
notNnVars == <<cocoVars, bpVars, knnVars, dnnVars, feVars, nndVars,
    trnVars>>
notDnnVars == <<cocoVars, bpVars, knnVars, nnVars, feVars, nndVars,
    trnVars>>
notFeVars == <<cocoVars, bpVars, knnVars, nnVars, dnnVars, nndVars,
    trnVars>>
notNndVars == <<cocoVars, bpVars, knnVars, nnVars, dnnVars, feVars,
    trnVars>>
notTrnVars == <<cocoVars, bpVars, knnVars, nnVars, dnnVars, feVars, nndVars>>

\* ------------------------------------------------------------------ bounds

MaxDetectCalls == 1
MaxPreds == 2
MaxSegmentCalls == 1
MaxVideoCalls == 2
MaxExamples == 2
MaxClassifyCalls == 1
MaxSaves == 1
MaxTrainCalls == 2
MaxModelSaves == 1
MaxDepth == 2
MaxAddData == 2
MaxTrainings == 2

\* ------------------------------------------------------- shared helpers

Range(s) == {s[i] : i \in 1..Len(s)}

RECURSIVE Gcd(_, _)
Gcd(a, b) == IF b = 0 THEN a ELSE Gcd(b, a % b)

\* JavaScript's a / b on non-negative numbers, as a fraction in lowest terms:
\* a / 0 is Infinity (1 over 0) and 0 / 0 is NaN (0 over 0).
Div(a, b) ==
    IF a = 0 /\ b = 0 THEN [num |-> 0, den |-> 0]
    ELSE [num |-> a \div Gcd(a, b), den |-> b \div Gcd(a, b)]

\* utils/callcallback: callCallback(promise, callback) returns the promise it
\* is given, and when a callback is given calls it once the promise settles,
\* callback(undefined, result) on fulfilment and callback(error) on rejection.
\* The invocations it makes of the callback for a promise settled as `state`.
callCallback(hasCb, state, err, result) ==
    IF ~hasCb THEN << >>
    ELSE IF state = "fulfilled"
         THEN << [kind |-> "result", err |-> "undefined", result |-> result] >>
         ELSE << [kind |-> "error", err |-> err, result |-> << >>] >>

\* ---------------------------------------------------------------- CocoSsd

Subjects == { [width |-> 2, height |-> 4], [width |-> 4, height |-> 1],
              [width |-> 0, height |-> 3] }

RawPrediction == { [class |-> "cat", score |-> 9, bbox |-> <<0, 1, 2, 3>>],
                   [class |-> "dog", score |-> 5, bbox |-> <<4, 4, 6, 2>>] }

RawPredictions == UNION { [1..n -> RawPrediction] : n \in 0..MaxPreds }

CocoInit ==
    /\ cocoPhase = "none"
    /\ cocoLoad = "idle"
    /\ cocoSsdModel = "undefined"
    /\ cocoReady = "pending"
    /\ cocoCtorLog = [given |-> FALSE, calls |-> << >>]
    /\ cocoCalls = << >>
    /\ cocoModelCalls = << >>

\* constructor(constructorCallback): loadModel() runs to its await of
\* cocoSsd.load() and this.ready is the promise callCallback returns.
CocoConstructor(hasCb) ==
    /\ cocoPhase = "none"
    /\ cocoPhase' = "constructed"
    /\ cocoLoad' = "loading"
    /\ cocoCtorLog' = [given |-> hasCb, calls |-> << >>]
    /\ UNCHANGED <<cocoSsdModel, cocoReady, cocoCalls, cocoModelCalls>>
    /\ UNCHANGED notCocoVars

\* cocoSsd.load() resolves: the then-handler stores the model.
CocoLoadStore ==
    /\ cocoLoad = "loading"
    /\ cocoSsdModel' = "loaded"
    /\ cocoLoad' = "stored"
    /\ UNCHANGED <<cocoPhase, cocoReady, cocoCtorLog, cocoCalls, cocoModelCalls>>
    /\ UNCHANGED notCocoVars

\* loadModel() returns after its await: this.ready is fulfilled and
\* callCallback hands the result to the constructor callback.
CocoLoadModelReturn ==
    /\ cocoLoad = "stored"
    /\ cocoLoad' = "done"
    /\ cocoReady' = "fulfilled"
    /\ cocoCtorLog' = [cocoCtorLog EXCEPT !.calls =
           @ \o callCallback(cocoCtorLog.given, "fulfilled", "undefined", << >>)]
    /\ UNCHANGED <<cocoPhase, cocoSsdModel, cocoCalls, cocoModelCalls>>
    /\ UNCHANGED notCocoVars

\* cocoSsd.load() rejects: loadModel() throws and this.ready is rejected.
CocoLoadReject ==
    /\ cocoLoad = "loading"
    /\ cocoLoad' = "failed"
    /\ cocoReady' = "rejected"
    /\ cocoCtorLog' = [cocoCtorLog EXCEPT !.calls =
           @ \o callCallback(cocoCtorLog.given, "rejected", "LoadError", << >>)]
    /\ UNCHANGED <<cocoPhase, cocoSsdModel, cocoCalls, cocoModelCalls>>
    /\ UNCHANGED notCocoVars

\* detect(subject, callback) runs to `await this.ready`.
CocoDetect(subject, hasCb) ==
    /\ cocoPhase = "constructed"
    /\ Len(cocoCalls) < MaxDetectCalls
    /\ cocoCalls' = Append(cocoCalls,
           [subject |-> subject, hasCb |-> hasCb,
            beforeLoad |-> cocoReady = "pending", pc |-> "awaitReady",
            raw |-> << >>, formatted |-> << >>, promise |-> "pending",
            error |-> "none", cbLog |-> << >>])
    /\ UNCHANGED <<cocoPhase, cocoLoad, cocoSsdModel, cocoReady, cocoCtorLog,
                   cocoModelCalls>>
    /\ UNCHANGED notCocoVars

\* `await this.ready` lets detect() continue once this.ready has settled.
CocoAwaitReadyMutant(ready) == TRUE
CocoAwaitReady(ready) == ready # "pending"

\* The continuation of detect() after `await this.ready`: a rejected ready
\* promise throws out of detect(); otherwise this.cocoSsdModel.detect(subject)
\* is called, which is a TypeError while cocoSsdModel is undefined.
CocoDetectAfterReady(i) ==
    /\ i \in 1..Len(cocoCalls)
    /\ cocoCalls[i].pc = "awaitReady"
    /\ CocoAwaitReady(cocoReady)
    /\ IF cocoReady = "rejected"
       THEN /\ cocoCalls' = [cocoCalls EXCEPT ![i].pc = "done",
                                 ![i].promise = "rejected",
                                 ![i].error = "LoadError"]
            /\ UNCHANGED cocoModelCalls
       ELSE /\ cocoModelCalls' = Append(cocoModelCalls,
                   [call |-> i, modelLoaded |-> cocoSsdModel = "loaded"])
            /\ IF cocoSsdModel = "loaded"
               THEN cocoCalls' = [cocoCalls EXCEPT ![i].pc = "detecting"]
               ELSE cocoCalls' = [cocoCalls EXCEPT ![i].pc = "done",
                                      ![i].promise = "rejected",
                                      ![i].error = "TypeError"]
    /\ UNCHANGED <<cocoPhase, cocoLoad, cocoSsdModel, cocoReady, cocoCtorLog>>
    /\ UNCHANGED notCocoVars

\* One formatted prediction of detect()'s then-handler.
FormatPredictionMutant(prediction, subject) ==
    [label |-> prediction.class,
     confidence |-> prediction.score,
     x |-> Div(prediction.bbox[1], subject.width),
     y |-> Div(prediction.bbox[2], subject.width),
     w |-> Div(prediction.bbox[3], subject.width),
     h |-> Div(prediction.bbox[4], subject.height)]
FormatPrediction(prediction, subject) ==
    [label |-> prediction.class,
     confidence |-> prediction.score,
     x |-> Div(prediction.bbox[1], subject.width),
     y |-> Div(prediction.bbox[2], subject.height),
     w |-> Div(prediction.bbox[3], subject.width),
     h |-> Div(prediction.bbox[4], subject.height)]

\* The loop of the then-handler: formattedPredictions after pushing one entry
\* per prediction, i = 0 .. predictions.length - 1.
RECURSIVE FormatPredictions(_, _)
FormatPredictions(predictions, subject) ==
    IF predictions = << >> THEN << >>
    ELSE Append(FormatPredictions(SubSeq(predictions, 1, Len(predictions) - 1),
                                  subject),
                FormatPrediction(predictions[Len(predictions)], subject))

\* The underlying detect resolves with `predictions`: the then-handler builds
\* formattedPredictions and passes a promise resolved with them to callCallback.
CocoDetectResolve(i, predictions) ==
    /\ i \in 1..Len(cocoCalls)
    /\ cocoCalls[i].pc = "detecting"
    /\ cocoCalls' = [cocoCalls EXCEPT ![i].pc = "formatted",
                         ![i].raw = predictions,
                         ![i].formatted =
                             FormatPredictions(predictions, cocoCalls[i].subject)]
    /\ UNCHANGED <<cocoPhase, cocoLoad, cocoSsdModel, cocoReady, cocoCtorLog,
                   cocoModelCalls>>
    /\ UNCHANGED notCocoVars

\* The underlying detect rejects: the then-handler is skipped and the promise
\* detect() returned is rejected; no code of detect() runs again.
CocoDetectReject(i) ==
    /\ i \in 1..Len(cocoCalls)
    /\ cocoCalls[i].pc = "detecting"
    /\ cocoCalls' = [cocoCalls EXCEPT ![i].pc = "done",
                         ![i].promise = "rejected",
                         ![i].error = "DetectError"]
    /\ UNCHANGED <<cocoPhase, cocoLoad, cocoSsdModel, cocoReady, cocoCtorLog,
                   cocoModelCalls>>
    /\ UNCHANGED notCocoVars

\* The promise given to callCallback settles: the callback (when given) is
\* called with the formatted predictions, then detect()'s promise is fulfilled.
CocoDetectDeliver(i) ==
    /\ i \in 1..Len(cocoCalls)
    /\ cocoCalls[i].pc = "formatted"
    /\ cocoCalls' = [cocoCalls EXCEPT ![i].pc = "done",
                         ![i].promise = "fulfilled",
                         ![i].cbLog = @ \o callCallback(cocoCalls[i].hasCb,
                                "fulfilled", "undefined", cocoCalls[i].formatted)]
    /\ UNCHANGED <<cocoPhase, cocoLoad, cocoSsdModel, cocoReady, cocoCtorLog,
                   cocoModelCalls>>
    /\ UNCHANGED notCocoVars

NextCocoSsd ==
    \/ \E hasCb \in BOOLEAN : CocoConstructor(hasCb)
    \/ CocoLoadStore
    \/ CocoLoadModelReturn
    \/ CocoLoadReject
    \/ \E subject \in Subjects, hasCb \in BOOLEAN : CocoDetect(subject, hasCb)
    \/ \E i \in 1..MaxDetectCalls : CocoDetectAfterReady(i)
    \/ \E i \in 1..MaxDetectCalls, predictions \in RawPredictions :
           CocoDetectResolve(i, predictions)
    \/ \E i \in 1..MaxDetectCalls : CocoDetectReject(i)
    \/ \E i \in 1..MaxDetectCalls : CocoDetectDeliver(i)

\* ---------------------------------------------------------------- BodyPix

\* The value of an options key the caller did not supply.
Undefined == -1

\* DEFAULTS, with multiplier and segmentationThreshold in hundredths.
DEFAULTS == [multiplier |-> 75, outputStride |-> 16,
             segmentationThreshold |-> 50, palette |-> "BODYPIX_PALETTE"]

NoOptions == [multiplier |-> Undefined, outputStride |-> Undefined,
              segmentationThreshold |-> Undefined, palette |-> "undefined"]

\* The options objects a caller passes to bodyPix().
CtorOptionObjects ==
    { NoOptions,
      [multiplier |-> 50, outputStride |-> 8,
       segmentationThreshold |-> 30, palette |-> "customPalette"],
      [multiplier |-> Undefined, outputStride |-> Undefined,
       segmentationThreshold |-> 0, palette |-> "undefined"] }

\* The options objects a caller passes to segment() / segmentWithParts().
SegOptionObjects ==
    { [multiplier |-> Undefined, outputStride |-> 32,
       segmentationThreshold |-> 70, palette |-> "callPalette"],
      [multiplier |-> Undefined, outputStride |-> 8,
       segmentationThreshold |-> 0, palette |-> "undefined"] }

\* JavaScript's a || b on numbers and on objects: undefined and 0 are falsy.
OrNumber(a, b) == IF a = Undefined \/ a = 0 THEN b ELSE a
OrObject(a, b) == IF a = "undefined" THEN b ELSE a

\* An argument of bodyPix(), segment() or segmentWithParts(): its kind and,
\* for an options object, the object.
Arg(kind) == [kind |-> kind, options |-> NoOptions]
OptionsArg(o) == [kind |-> "options", options |-> o]

BodyPixArg1 == { Arg("undefined"), Arg("HTMLVideoElement"), Arg("p5Video"),
                 Arg("function") } \cup { OptionsArg(o) : o \in CtorOptionObjects }
BodyPixArg2 == { Arg("undefined"), Arg("function") }
                   \cup { OptionsArg(o) : o \in CtorOptionObjects }
CallbackArg == { Arg("undefined"), Arg("function") }

\* typeof x === 'object' for the argument kinds of the model.
IsObject(a) == a.kind \in {"options", "p5Video", "p5Image", "p5Canvas",
                           "HTMLVideoElement", "HTMLImageElement", "plainObject"}

BpInit ==
    /\ bpPhase = "none"
    /\ bpArgs = [anyFunction |-> FALSE, options |-> NoOptions]
    /\ bpReturned = "none"
    /\ bpVideo = [present |-> FALSE, readyState |-> 0]
    /\ bpOnLoadedData = 0
    /\ bpConfig = DEFAULTS
    /\ bpModel = "null"
    /\ bpModelReady = FALSE
    /\ bpLoad = "idle"
    /\ bpReady = [state |-> "pending", value |-> "none"]
    /\ bpCtorLog = [given |-> FALSE, calls |-> << >>]
    /\ bpCalls = << >>
    /\ bpEstimates = << >>

\* The video, options and callback bodyPix() hands to the constructor.
FactoryVideo(a1) == a1.kind \in {"HTMLVideoElement", "p5Video"}

FactoryOptions(a1, a2) ==
    IF IsObject(a2) THEN a2.options
    ELSE IF ~FactoryVideo(a1) /\ IsObject(a1) THEN a1.options
    ELSE NoOptions

FactoryCallbackMutant(a1, a2, cb) ==
    IF a2.kind = "function" THEN "optionsOrCallback"
    ELSE IF cb.kind = "function" THEN "cb"
    ELSE "undefined"
FactoryCallback(a1, a2, cb) ==
    IF a2.kind = "function" THEN "optionsOrCallback"
    ELSE IF a1.kind = "function" THEN "videoOrOptionsOrCallback"
    ELSE IF cb.kind = "function" THEN "cb"
    ELSE "undefined"

\* this.config as the constructor builds it.
ConstructorConfig(options) ==
    [multiplier |-> OrNumber(options.multiplier, DEFAULTS.multiplier),
     outputStride |-> OrNumber(options.outputStride, DEFAULTS.outputStride),
     segmentationThreshold |->
         OrNumber(options.segmentationThreshold, DEFAULTS.segmentationThreshold),
     palette |-> OrObject(options.palette, DEFAULTS.palette)]

\* bodyPix(videoOrOptionsOrCallback, optionsOrCallback, cb): the arguments are
\* sorted out, new BodyPix(video, options, callback) starts loadModel(), which
\* runs to its await of bp.load(), and the instance or its ready promise is
\* returned.  readyState is the readyState of the video element passed.
bodyPix(a1, a2, cb, readyState) ==
    /\ bpPhase = "none"
    /\ bpPhase' = "constructed"
    /\ bpArgs' = [anyFunction |-> "function" \in {a1.kind, a2.kind, cb.kind},
                  options |-> FactoryOptions(a1, a2)]
    /\ bpVideo' = [present |-> FactoryVideo(a1),
                   readyState |-> IF FactoryVideo(a1) THEN readyState ELSE 0]
    /\ bpConfig' = ConstructorConfig(FactoryOptions(a1, a2))
    /\ bpLoad' = "loading"
    /\ bpCtorLog' = [given |-> FactoryCallback(a1, a2, cb) # "undefined",
                     calls |-> << >>]
    /\ bpReturned' = IF FactoryCallback(a1, a2, cb) # "undefined"
                     THEN "instance" ELSE "ready"
    /\ UNCHANGED <<bpOnLoadedData, bpModel, bpModelReady, bpReady, bpCalls,
                   bpEstimates>>
    /\ UNCHANGED notBpVars

\* What loadModel() does when bp.load() resolves.
LoadModelResume ==
    /\ bpModel' = "loaded"
    /\ bpModelReady' = TRUE
    /\ bpReady' = [state |-> "fulfilled", value |-> "instance"]

\* bp.load() resolves: loadModel() stores the model, sets modelReady and
\* returns this, which fulfils this.ready; callCallback calls the callback.
BpLoadResolve ==
    /\ bpLoad = "loading"
    /\ bpLoad' = "done"
    /\ LoadModelResume
    /\ bpCtorLog' = [bpCtorLog EXCEPT !.calls =
           @ \o callCallback(bpCtorLog.given, "fulfilled", "undefined", <<"instance">>)]
    /\ UNCHANGED <<bpPhase, bpArgs, bpReturned, bpVideo, bpOnLoadedData, bpConfig,
                   bpCalls, bpEstimates>>
    /\ UNCHANGED notBpVars

\* bp.load() rejects: loadModel() throws and this.ready is rejected.
BpLoadReject ==
    /\ bpLoad = "loading"
    /\ bpLoad' = "failed"
    /\ bpReady' = [state |-> "rejected", value |-> "LoadError"]
    /\ bpCtorLog' = [bpCtorLog EXCEPT !.calls =
           @ \o callCallback(bpCtorLog.given, "rejected", "LoadError", << >>)]
    /\ UNCHANGED <<bpPhase, bpArgs, bpReturned, bpVideo, bpOnLoadedData, bpConfig,
                   bpModel, bpModelReady, bpCalls, bpEstimates>>
    /\ UNCHANGED notBpVars

\* The first argument of segment() / segmentWithParts().
SegmentArg1 == { Arg("undefined"), Arg("function"), Arg("HTMLImageElement"),
                 Arg("p5Image"), Arg("number"), Arg("plainObject") }
SegmentArg2 == { Arg("undefined"), Arg("function") }
                   \cup { OptionsArg(o) : o \in SegOptionObjects }

NoInputError ==
    "No input image provided. If you want to classify a video, pass the video element in the constructor. "

\* The chain of conditions on optionsOrCallback: the image to segment, or
\* "throw" where the chain ends in the throw of the error.
ImgToSegment(a1, video) ==
    IF a1.kind = "function" THEN "this.video"
    ELSE IF a1.kind \in {"HTMLImageElement", "HTMLCanvasElement",
                         "HTMLVideoElement", "ImageData"} THEN "optionsOrCallback"
    ELSE IF a1.kind = "p5Image" THEN "optionsOrCallback.elt"
    ELSE IF a1.kind = "p5Canvas" THEN "optionsOrCallback.canvas"
    ELSE IF a1.kind = "p5Video" THEN "optionsOrCallback.elt"
    ELSE IF ~video.present THEN "throw"
    ELSE "this.video"

\* The callback of the call: the last of the three arguments that is a function.
SegmentCallback(a1, a2, cb) ==
    a1.kind = "function" \/ a2.kind = "function" \/ cb.kind = "function"

\* segmentationOptions: configOrCallback when it is an object, else this.config
\* itself (the same object, read when segmentInternal uses it).
SegmentationOptions(a2) ==
    IF IsObject(a2) THEN [isConfig |-> FALSE, options |-> a2.options]
    ELSE [isConfig |-> TRUE, options |-> NoOptions]

\* segment(optionsOrCallback, configOrCallback, cb) and segmentWithParts(...):
\* the arguments are sorted out; without an image the call throws, which
\* rejects the promise it returns; otherwise segmentInternal /
\* segmentWithPartsInternal starts and runs to `await this.ready`.
SegmentCall(fn, a1, a2, cb) ==
    /\ bpPhase = "constructed"
    /\ LET img == ImgToSegment(a1, bpVideo)
           call == [fn |-> fn, arg1 |-> a1.kind, img |-> img,
                    segmentationOptions |-> SegmentationOptions(a2),
                    hasCb |-> SegmentCallback(a1, a2, cb),
                    beforeLoad |-> bpReady.state = "pending",
                    pc |-> "awaitReady", promise |-> "pending",
                    error |-> "none", cbLog |-> << >>]
       IN  IF img = "throw"
           THEN bpCalls' = Append(bpCalls,
                    [call EXCEPT !.pc = "done", !.promise = "rejected",
                                 !.error = NoInputError])
           ELSE bpCalls' = Append(bpCalls, call)
    /\ UNCHANGED <<bpPhase, bpArgs, bpReturned, bpVideo, bpOnLoadedData, bpConfig,
                   bpModel, bpModelReady, bpLoad, bpReady, bpCtorLog, bpEstimates>>
    /\ UNCHANGED notBpVars

BpSegment(fn, a1, a2, cb) ==
    /\ Len(bpCalls) < MaxSegmentCalls
    /\ SegmentCall(fn, a1, a2, cb)

\* `await this.ready` lets segmentInternal continue once this.ready has settled.
BpAwaitReady(ready) == ready.state # "pending"

\* The promise callCallback was given is rejected with `error`: the call's
\* promise is rejected and the callback, when given, is called with the error.
BpFail(i, error) ==
    [bpCalls EXCEPT ![i].pc = "done", ![i].promise = "rejected",
                    ![i].error = error,
                    ![i].cbLog = @ \o callCallback(bpCalls[i].hasCb, "rejected",
                                                   error, << >>)]

\* The continuation after `await this.ready`: a rejected ready promise throws
\* out of segmentInternal, else it goes on to `await tf.nextFrame()`.
BpAfterReady(i) ==
    /\ i \in 1..Len(bpCalls)
    /\ bpCalls[i].pc = "awaitReady"
    /\ BpAwaitReady(bpReady)
    /\ IF bpReady.state = "rejected"
       THEN bpCalls' = BpFail(i, bpReady.value)
       ELSE bpCalls' = [bpCalls EXCEPT ![i].pc = "nextFrame"]
    /\ UNCHANGED <<bpPhase, bpArgs, bpReturned, bpVideo, bpOnLoadedData, bpConfig,
                   bpModel, bpModelReady, bpLoad, bpReady, bpCtorLog, bpEstimates>>
    /\ UNCHANGED notBpVars

\* A key of the call's segmentationOptions, read now.
OptionOf(call, key) ==
    IF call.segmentationOptions.isConfig THEN bpConfig[key]
    ELSE call.segmentationOptions.options[key]

\* this.config after the assignments of segmentInternal (outputStride,
\* segmentationThreshold) and of segmentWithPartsInternal (palette too).
ConfigAfter(call) ==
    [multiplier |-> bpConfig.multiplier,
     outputStride |-> OrNumber(OptionOf(call, "outputStride"), bpConfig.outputStride),
     segmentationThreshold |-> OrNumber(OptionOf(call, "segmentationThreshold"),
                                        bpConfig.segmentationThreshold),
     palette |-> IF call.fn = "segmentWithParts"
                 THEN OrObject(OptionOf(call, "palette"), bpConfig.palette)
                 ELSE bpConfig.palette]

\* The part of segmentInternal from the assignments to this.config to the
\* await of this.model.estimate*Segmentation(imgToSegment, outputStride,
\* segmentationThreshold), which is a TypeError while this.model is null.
BpEstimate(i) ==
    /\ bpConfig' = ConfigAfter(bpCalls[i])
    /\ bpEstimates' = Append(bpEstimates,
           [call |-> i, fn |-> bpCalls[i].fn, img |-> bpCalls[i].img,
            outputStride |-> ConfigAfter(bpCalls[i]).outputStride,
            segmentationThreshold |-> ConfigAfter(bpCalls[i]).segmentationThreshold,
            modelLoaded |-> bpModel = "loaded"])
    /\ IF bpModel = "loaded"
       THEN bpCalls' = [bpCalls EXCEPT ![i].pc = "estimating"]
       ELSE bpCalls' = BpFail(i, "TypeError")

\* The continuation after `await tf.nextFrame()`: with a video whose
\* readyState is 0 the call sets this.video.onloadeddata and waits for it,
\* else it goes on to the estimate.
BpAfterFrame(i) ==
    /\ i \in 1..Len(bpCalls)
    /\ bpCalls[i].pc = "nextFrame"
    /\ IF bpVideo.present /\ bpVideo.readyState = 0
       THEN /\ bpOnLoadedData' = i
            /\ bpCalls' = [bpCalls EXCEPT ![i].pc = "awaitVideo"]
            /\ UNCHANGED <<bpConfig, bpEstimates>>
       ELSE /\ BpEstimate(i)
            /\ UNCHANGED bpOnLoadedData
    /\ UNCHANGED <<bpPhase, bpArgs, bpReturned, bpVideo, bpModel, bpModelReady,
                   bpLoad, bpReady, bpCtorLog>>
    /\ UNCHANGED notBpVars

\* The video fires loadeddata, once: its readyState is no longer 0 and the
\* handler in this.video.onloadeddata, if any, resolves its call's promise.
BpVideoLoadedData ==
    /\ bpVideo.present
    /\ bpVideo.readyState = 0
    /\ bpVideo' = [bpVideo EXCEPT !.readyState = 4]
    /\ IF bpOnLoadedData # 0
       THEN bpCalls' = [bpCalls EXCEPT ![bpOnLoadedData].pc = "videoLoaded"]
       ELSE UNCHANGED bpCalls
    /\ UNCHANGED <<bpPhase, bpArgs, bpReturned, bpOnLoadedData, bpConfig, bpModel,
                   bpModelReady, bpLoad, bpReady, bpCtorLog, bpEstimates>>
    /\ UNCHANGED notBpVars

\* The continuation after the await of the loadeddata promise.
BpAfterVideo(i) ==
    /\ i \in 1..Len(bpCalls)
    /\ bpCalls[i].pc = "videoLoaded"
    /\ BpEstimate(i)
    /\ UNCHANGED <<bpPhase, bpArgs, bpReturned, bpVideo, bpOnLoadedData, bpModel,
                   bpModelReady, bpLoad, bpReady, bpCtorLog>>
    /\ UNCHANGED notBpVars

\* The estimate resolves: the result object is built and returned, the call's
\* promise is fulfilled and the callback, when given, is called with the result.
BpEstimateResolve(i) ==
    /\ i \in 1..Len(bpCalls)
    /\ bpCalls[i].pc = "estimating"
    /\ bpCalls' = [bpCalls EXCEPT ![i].pc = "done", ![i].promise = "fulfilled",
                       ![i].cbLog = @ \o callCallback(bpCalls[i].hasCb, "fulfilled",
                                                      "undefined", <<"result">>)]
    /\ UNCHANGED <<bpPhase, bpArgs, bpReturned, bpVideo, bpOnLoadedData, bpConfig,
                   bpModel, bpModelReady, bpLoad, bpReady, bpCtorLog, bpEstimates>>
    /\ UNCHANGED notBpVars

\* The estimate rejects: segmentInternal throws.
BpEstimateReject(i) ==
    /\ i \in 1..Len(bpCalls)
    /\ bpCalls[i].pc = "estimating"
    /\ bpCalls' = BpFail(i, "EstimateError")
    /\ UNCHANGED <<bpPhase, bpArgs, bpReturned, bpVideo, bpOnLoadedData, bpConfig,
                   bpModel, bpModelReady, bpLoad, bpReady, bpCtorLog, bpEstimates>>
    /\ UNCHANGED notBpVars

NextBodyPix ==
    \/ \E a1 \in BodyPixArg1, a2 \in BodyPixArg2, cb \in CallbackArg,
          readyState \in {0, 4} : bodyPix(a1, a2, cb, readyState)
    \/ BpLoadResolve
    \/ BpLoadReject
    \/ \E fn \in {"segment", "segmentWithParts"}, a1 \in SegmentArg1,
          a2 \in SegmentArg2, cb \in CallbackArg : BpSegment(fn, a1, a2, cb)
    \/ \E i \in 1..MaxSegmentCalls : BpAfterReady(i)
    \/ \E i \in 1..MaxSegmentCalls : BpAfterFrame(i)
    \/ BpVideoLoadedData
    \/ \E i \in 1..MaxSegmentCalls : BpAfterVideo(i)
    \/ \E i \in 1..MaxSegmentCalls : BpEstimateResolve(i)
    \/ \E i \in 1..MaxSegmentCalls : BpEstimateReject(i)

\* ------------------------------------------- BodyPix, several calls on a video
\* An instance made on a video element, and calls of segment() and
\* segmentWithParts() without an image and without a callback, which segment
\* this.video; a call may start while earlier ones are still pending.
VideoCtorOptions == { a \in BodyPixArg2 : a.kind # "function" }
VideoCallOptions == { a \in SegmentArg2 : a.kind # "function" }

BpVideoInstance(a2, readyState) ==
    /\ a2.kind # "function"
    /\ bodyPix(Arg("HTMLVideoElement"), a2, Arg("undefined"), readyState)

BpSegmentVideo(fn, a2) ==
    /\ Len(bpCalls) < MaxVideoCalls
    /\ SegmentCall(fn, Arg("undefined"), a2, Arg("undefined"))

NextBodyPixVideo ==
    \/ \E a2 \in VideoCtorOptions, readyState \in {0, 4} :
          BpVideoInstance(a2, readyState)
    \/ BpLoadResolve
    \/ \E fn \in {"segment", "segmentWithParts"}, a2 \in VideoCallOptions :
          BpSegmentVideo(fn, a2)
    \/ \E i \in 1..MaxVideoCalls : BpAfterReady(i)
    \/ \E i \in 1..MaxVideoCalls : BpAfterFrame(i)
    \/ BpVideoLoadedData
    \/ \E i \in 1..MaxVideoCalls : BpAfterVideo(i)
    \/ \E i \in 1..MaxVideoCalls : BpEstimateResolve(i)
    \/ \E i \in 1..MaxVideoCalls : BpEstimateReject(i)

\* -------------------------------------------------------------------- KNN

Labels == {"a", "b"}
ExampleInputs == { <<1, 2>>, <<3, 4>> }

\* The class indices the underlying classifier is used with.
ClassIds == 0..(Cardinality(Labels) - 1)

\* A class without examples, as the underlying classifier holds none for it.
\* registered is the label addExample was called with for the class's
\* examples; labelProp is the label property save() sets on its tensor.
NoClass == [examples |-> << >>, registered |-> "undefined", labelProp |-> "undefined"]

\* No file; atSave is the mapStringToIndex and the dataset save() was called on.
NoFile == [exists |-> FALSE, keys |-> << >>,
           dataset |-> [c \in ClassIds |-> [shape |-> <<0, 0>>, label |-> "undefined"]],
           tensors |-> << >>,
           atSave |-> [map |-> << >>, dataset |-> [c \in ClassIds |-> NoClass],
                       loadedBefore |-> FALSE]]

\* A method call that is not addExample; counts is what getCountByLabel
\* returned.
Call(op) == [op |-> op, type |-> "none", number |-> Undefined,
             label |-> "undefined", classIndex |-> Undefined, counts |-> << >>]

NoResult == [classIndex |-> -1, confidences |-> [c \in {} |-> 0]]

\* No classify() call has settled in the last step.
NotSettled == [promise |-> "pending", hasCb |-> FALSE, numClass |-> 0,
               after |-> "none", error |-> "none", predictCalled |-> FALSE,
               cbLog |-> << >>, res |-> NoResult, label |-> "undefined",
               hasConfidencesByLabel |-> FALSE,
               confidencesByLabel |-> [l \in {} |-> 0]]

NoExampleError == "There is no example in any class"

KnnInit ==
    /\ mapStringToIndex = << >>
    /\ knnDataset = [c \in ClassIds |-> NoClass]
    /\ knnCall = Call("constructor")
    /\ knnInFlight = << >>
    /\ knnSettled = NotSettled
    /\ knnSaved = NoFile
    /\ knnLoaded = FALSE
    /\ knnSaves = 0

\* Array.prototype.includes / indexOf (0-based) / an element read, which is
\* undefined past the end.
Includes(array, x) == \E j \in 1..Len(array) : array[j] = x
IndexOf(array, x) == (CHOOSE j \in 1..Len(array) :
                         array[j] = x /\ \A k \in 1..(j - 1) : array[k] # x) - 1
At(array, index) == IF index + 1 \in 1..Len(array) THEN array[index + 1]
                    ELSE "undefined"

\* Object.keys of the underlying classifier's dataset, in ascending order.
ClassesOf(dataset) == {c \in ClassIds : dataset[c].examples # << >>}

RECURSIVE Ascending(_)
Ascending(S) ==
    IF S = {} THEN << >>
    ELSE LET m == CHOOSE x \in S : \A y \in S : x <= y
         IN  <<m>> \o Ascending(S \ {m})

\* knnClassifier.getNumClasses()
GetNumClasses == Cardinality(ClassesOf(knnDataset))

RECURSIVE SumLen(_, _)
SumLen(dataset, classes) ==
    IF classes = {} THEN 0
    ELSE LET c == CHOOSE x \in classes : TRUE
         IN  Len(dataset[c].examples) + SumLen(dataset, classes \ {c})

\* The number of examples the underlying classifier holds.
NumExamples(dataset) == SumLen(dataset, ClassIds)

\* An argument of addExample / clearLabel: a string label or a number.
StringArg(label) == [type |-> "string", label |-> label, number |-> Undefined]
NumberArg(n) == [type |-> "number", label |-> "undefined", number |-> n]

\* The classIndex addExample computes: the label's index for a string; the
\* second test compares the argument itself with the string 'number', which
\* no argument that is not a string equals, so classIndex stays undefined.
AddExampleClassIndex(arg, map) ==
    IF arg.type = "string"
    THEN (IF Includes(map, arg.label) THEN IndexOf(map, arg.label) ELSE Len(map))
    ELSE Undefined

\* this.mapStringToIndex after addExample: a string that is not in it yet is
\* pushed.
AddExampleMapMutant(arg, map) ==
    IF arg.type = "string" THEN Append(map, arg.label) ELSE map
AddExampleMap(arg, map) ==
    IF arg.type = "string" /\ ~Includes(map, arg.label)
    THEN Append(map, arg.label) ELSE map

\* knnClassifier.addExample(example, classIndex) of the underlying classifier:
\* a classIndex that is no integer throws, else the example joins its class
\* (a new tensor, without the label property save() sets).
UnderlyingAddExample(dataset, example, classIndex, label) ==
    IF classIndex \notin ClassIds THEN dataset
    ELSE [dataset EXCEPT ![classIndex] =
             [examples |-> Append(@.examples, example),
              registered |-> label, labelProp |-> "undefined"]]

\* addExample(input, classIndexOrLabel)
KnnAddExample(input, arg) ==
    /\ NumExamples(knnDataset) < MaxExamples
    /\ LET classIndex == AddExampleClassIndex(arg, mapStringToIndex)
       IN  /\ mapStringToIndex' = AddExampleMap(arg, mapStringToIndex)
           /\ knnCall' = [op |-> "addExample", type |-> arg.type,
                          number |-> arg.number, label |-> arg.label,
                          classIndex |-> classIndex, counts |-> << >>]
           /\ knnDataset' = UnderlyingAddExample(knnDataset, input, classIndex, arg.label)
    /\ knnSettled' = NotSettled
    /\ UNCHANGED <<knnInFlight, knnSaved, knnLoaded, knnSaves>>
    /\ UNCHANGED notKnnVars

\* The test of classifyInternal that throws the 'no example' error.
NoExampleMutant(numClass) == numClass < 0
NoExample(numClass) == numClass <= 0

\* What knnClassifier.predictClass can resolve to when the classifier holds
\* `dataset` at the time its top class is calculated: the class
\* with the highest confidence and a confidence (in hundredths, 100 in all)
\* for every class of the dataset; classIndex -1 and no confidences on an
\* empty dataset.
TopConfidences(classes, top) ==
    { f \in [classes -> {0, 50, 100}] :
        /\ f[top] > 0
        /\ \A c \in classes : f[c] <= f[top]
        /\ Cardinality({c \in classes : f[c] = 50}) \in {0, 2}
        /\ Cardinality({c \in classes : f[c] = 100}) = 1
               <=> Cardinality({c \in classes : f[c] = 50}) = 0 }

PredictResults(dataset) ==
    IF ClassesOf(dataset) = {}
    THEN { NoResult }
    ELSE UNION { { [classIndex |-> top, confidences |-> conf] :
                     conf \in TopConfidences(ClassesOf(dataset), top) } :
                 top \in ClassesOf(dataset) }

\* classify(input, kOrCallback, cb): classifyInternal runs to its throw or to
\* its await of knnClassifier.predictClass; callCallback hands a thrown error
\* to the callback and the promise classify() returns is rejected with it.
KnnClassify(hasCb) ==
    /\ Len(knnInFlight) < MaxClassifyCalls
    /\ IF NoExample(GetNumClasses)
       THEN /\ knnSettled' = [NotSettled EXCEPT
                   !.promise = "rejected", !.hasCb = hasCb,
                   !.numClass = GetNumClasses, !.after = knnCall.op,
                   !.error = NoExampleError,
                   !.cbLog = callCallback(hasCb, "rejected", NoExampleError, << >>)]
            /\ UNCHANGED knnInFlight
       ELSE /\ knnInFlight' = Append(knnInFlight,
                       [hasCb |-> hasCb, numClass |-> GetNumClasses])
            /\ knnSettled' = NotSettled
    /\ knnCall' = Call("classify")
    /\ UNCHANGED <<mapStringToIndex, knnDataset, knnSaved, knnLoaded, knnSaves>>
    /\ UNCHANGED notKnnVars

\* res['label'] as classifyInternal sets it: the label at res.classIndex when
\* mapStringToIndex is not empty and that label is truthy.
ResultLabel(res, map) ==
    IF Len(map) > 0 /\ (res.classIndex # 0 \/ res.classIndex = 0)
    THEN At(map, res.classIndex) ELSE "undefined"

\* res['confidencesByLabel']: for every index of res.confidences, in
\* ascending order, the entry [label at that index] = confidences[index];
\* a later index with the same label overwrites an earlier one.
RECURSIVE ConfidencesByLabel(_, _, _)
ConfidencesByLabel(indexes, confidences, map) ==
    IF indexes = << >> THEN [l \in {} |-> 0]
    ELSE LET before == ConfidencesByLabel(SubSeq(indexes, 1, Len(indexes) - 1),
                                          confidences, map)
             index == indexes[Len(indexes)]
             label == At(map, index)
         IN  [l \in DOMAIN before \cup {label} |->
                 IF l = label THEN confidences[index] ELSE before[l]]

\* predictClass resolves, to res, for the call in flight at position i:
\* classifyInternal adds label and confidencesByLabel to the result and
\* returns it; callCallback hands it to the callback.
KnnClassifyResolve(i) ==
    /\ i \in 1..Len(knnInFlight)
    /\ \E res \in PredictResults(knnDataset) :
       LET c == knnInFlight[i]
       IN  knnSettled' =
               [promise |-> "fulfilled", hasCb |-> c.hasCb, numClass |-> c.numClass,
                after |-> "none", error |-> "none", predictCalled |-> TRUE,
                cbLog |-> callCallback(c.hasCb, "fulfilled", "undefined", <<"res">>),
                res |-> res,
                label |-> ResultLabel(res, mapStringToIndex),
                hasConfidencesByLabel |-> Len(mapStringToIndex) > 0,
                confidencesByLabel |->
                    IF Len(mapStringToIndex) > 0
                    THEN ConfidencesByLabel(Ascending(DOMAIN res.confidences),
                                            res.confidences, mapStringToIndex)
                    ELSE [l \in {} |-> 0]]
    /\ knnInFlight' = SubSeq(knnInFlight, 1, i - 1)
                          \o SubSeq(knnInFlight, i + 1, Len(knnInFlight))
    /\ UNCHANGED <<mapStringToIndex, knnDataset, knnCall, knnSaved, knnLoaded, knnSaves>>
    /\ UNCHANGED notKnnVars

\* The classIndex clearLabel computes.
ClearLabelClassIndex(arg, map) ==
    IF arg.type = "string"
    THEN (IF Includes(map, arg.label) THEN IndexOf(map, arg.label) ELSE Undefined)
    ELSE arg.number

\* clearLabel(labelIndex): knnClassifier.clearClass(classIndex) deletes the
\* class, and throws on a class the classifier does not hold.
KnnClearLabel(arg) ==
    /\ LET classIndex == ClearLabelClassIndex(arg, mapStringToIndex)
       IN  knnDataset' = IF classIndex \in ClassesOf(knnDataset)
                         THEN [knnDataset EXCEPT ![classIndex] = NoClass]
                         ELSE knnDataset
    /\ knnCall' = Call("clearLabel")
    /\ knnSettled' = NotSettled
    /\ UNCHANGED <<mapStringToIndex, knnInFlight, knnSaved, knnLoaded, knnSaves>>
    /\ UNCHANGED notKnnVars

\* clearAllLabels()
KnnClearAllLabels ==
    /\ mapStringToIndex' = << >>
    /\ knnDataset' = [c \in ClassIds |-> NoClass]
    /\ knnCall' = Call("clearAllLabels")
    /\ knnSettled' = NotSettled
    /\ UNCHANGED <<knnInFlight, knnSaved, knnLoaded, knnSaves>>
    /\ UNCHANGED notKnnVars

\* A class's tensor as save() writes it: dataSync() is the rows one after
\* the other, and the tensor's shape is [rows, row length].
RECURSIVE Flatten(_)
Flatten(rows) ==
    IF rows = << >> THEN << >> ELSE rows[1] \o Flatten(Tail(rows))

ShapeOf(rows) == <<Len(rows), IF rows = << >> THEN 0 ELSE Len(rows[1])>>

\* tf.tensor(values, shape): the rows of a [rows, row length] tensor.
Reshape(values, shape) ==
    [r \in 1..shape[1] |-> SubSeq(values, (r - 1) * shape[2] + 1, r * shape[2])]

\* The label property save() leaves on the tensor of class `key`.
SavedLabel(dataset, map, key) ==
    IF Len(map) > 0 /\ At(map, key) # "undefined" THEN At(map, key)
    ELSE dataset[key].labelProp

\* save(name): sets the label property on the dataset's tensors and writes
\* JSON.stringify({ dataset, tensors }), tensors in the order of the keys.
KnnSave ==
    /\ knnSaves < MaxSaves
    /\ LET keys == Ascending(ClassesOf(knnDataset))
       IN  /\ knnDataset' = [c \in ClassIds |->
                  IF c \in ClassesOf(knnDataset)
                  THEN [knnDataset[c] EXCEPT
                           !.labelProp = SavedLabel(knnDataset, mapStringToIndex, c)]
                  ELSE knnDataset[c]]
           /\ knnSaved' =
                  [exists |-> TRUE, keys |-> keys,
                   dataset |-> [c \in ClassIds |->
                       IF c \in ClassesOf(knnDataset)
                       THEN [shape |-> ShapeOf(knnDataset[c].examples),
                             label |-> SavedLabel(knnDataset, mapStringToIndex, c)]
                       ELSE NoFile.dataset[c]],
                   tensors |-> [j \in 1..Len(keys) |->
                                   Flatten(knnDataset[keys[j]].examples)],
                   atSave |-> [map |-> mapStringToIndex, dataset |-> knnDataset,
                               loadedBefore |-> knnLoaded]]
    /\ knnCall' = Call("save")
    /\ knnSettled' = NotSettled
    /\ knnSaves' = knnSaves + 1
    /\ UNCHANGED <<mapStringToIndex, knnInFlight, knnLoaded>>
    /\ UNCHANGED notKnnVars

\* mapStringToIndex as load() sets it: the label of every key of the file's
\* dataset, in the order of the keys.
LoadedMap(file) == [j \in 1..Len(file.keys) |-> file.dataset[file.keys[j]].label]

\* The callback load() gives io.loadFile, run on the file save() wrote last:
\* mapStringToIndex is set, then tensor i of the file is rebuilt with the
\* shape of dataset[i], a TypeError when the dataset has no key i, and the
\* rebuilt tensors become the classifier's dataset, under the keys 0, 1, ...
KnnLoad ==
    /\ knnSaved.exists
    /\ mapStringToIndex' = LoadedMap(knnSaved)
    /\ IF \E i \in 0..(Len(knnSaved.tensors) - 1) :
              i \notin Range(knnSaved.keys)
       THEN UNCHANGED knnDataset
       ELSE knnDataset' = [c \in ClassIds |->
                   IF c < Len(knnSaved.tensors)
                   THEN [examples |-> Reshape(knnSaved.tensors[c + 1],
                                              knnSaved.dataset[c].shape),
                         registered |-> knnSaved.atSave.dataset[c].registered,
                         labelProp |-> "undefined"]
                   ELSE NoClass]
    /\ knnCall' = Call("load")
    /\ knnSettled' = NotSettled
    /\ knnLoaded' = TRUE
    /\ UNCHANGED <<knnInFlight, knnSaved, knnSaves>>
    /\ UNCHANGED notKnnVars

\* getCountByLabel(): the example count of every class of the underlying
\* classifier, as pairs <<key, count>> in the order of the classes; with a
\* non-empty mapStringToIndex the key is the label at the class's index and
\* a class without one is left out, else the key is the class index.
CountByIndex(dataset) ==
    [j \in 1..Cardinality(ClassesOf(dataset)) |->
        <<ToString(Ascending(ClassesOf(dataset))[j]),
          Len(dataset[Ascending(ClassesOf(dataset))[j]].examples)>>]

CountByLabel(map, dataset) ==
    [j \in 1..Cardinality(ClassesOf(dataset)) |->
        <<At(map, Ascending(ClassesOf(dataset))[j]), CountByIndex(dataset)[j][2]>>]

getCountByLabel(map, dataset) ==
    IF Len(map) > 0
    THEN SelectSeq(CountByLabel(map, dataset), LAMBDA pair : pair[1] # "undefined")
    ELSE CountByIndex(dataset)

KnnGetCountByLabel ==
    /\ knnCall' = [Call("getCountByLabel") EXCEPT
                       !.counts = getCountByLabel(mapStringToIndex, knnDataset)]
    /\ knnSettled' = NotSettled
    /\ UNCHANGED <<mapStringToIndex, knnDataset, knnInFlight, knnSaved, knnLoaded,
                   knnSaves>>
    /\ UNCHANGED notKnnVars

\* The calls of a program that never calls clearAllLabels, save or load.
NextKNNLabels ==
    \/ \E input \in ExampleInputs, label \in Labels :
           KnnAddExample(input, StringArg(label))
    \/ \E input \in ExampleInputs, n \in ClassIds :
           KnnAddExample(input, NumberArg(n))
    \/ \E hasCb \in BOOLEAN : KnnClassify(hasCb)
    \/ \E i \in 1..MaxClassifyCalls : KnnClassifyResolve(i)
    \/ \E label \in Labels : KnnClearLabel(StringArg(label))
    \/ \E n \in ClassIds : KnnClearLabel(NumberArg(n))
    \/ KnnGetCountByLabel

NextKNN ==
    \/ \E input \in ExampleInputs, label \in Labels :
           KnnAddExample(input, StringArg(label))
    \/ \E input \in ExampleInputs, n \in ClassIds :
           KnnAddExample(input, NumberArg(n))
    \/ \E hasCb \in BOOLEAN : KnnClassify(hasCb)
    \/ \E i \in 1..MaxClassifyCalls : KnnClassifyResolve(i)
    \/ \E label \in Labels : KnnClearLabel(StringArg(label))
    \/ \E n \in ClassIds : KnnClearLabel(NumberArg(n))
    \/ KnnClearAllLabels
    \/ KnnSave
    \/ KnnLoad

\* ------------------------------------------------------- DiyNeuralNetwork

\* The values train() is called with: an argument left out, an options
\* object, a function; pos tells the arguments of a call apart.
TrainArgKinds == {"undefined", "object", "function"}
TrainArg(kind, pos) == [kind |-> kind, pos |-> pos]

\* The {} and the null train() makes itself.
EmptyObject == [kind |-> "object", pos |-> 0]
Null == [kind |-> "null", pos |-> 0]

\* typeof value
TypeOf(value) == IF value.kind = "null" THEN "object" ELSE value.kind

NnInit == nnTrainCalls = << >>

\* The first test of train(): an options object and two functions.
TrainAllThree(optionsOrCallback, optionsOrWhileTraining, callback) ==
    /\ TypeOf(optionsOrCallback) = "object"
    /\ TypeOf(optionsOrWhileTraining) = "function"
    /\ TypeOf(callback) = "function"

\* The arguments train() hands to trainInternal.
TrainInternalArgs(optionsOrCallback, optionsOrWhileTraining, callback) ==
    IF TrainAllThree(optionsOrCallback, optionsOrWhileTraining, callback)
    THEN [options |-> optionsOrCallback,
          whileTrainingCb |-> optionsOrWhileTraining,
          finishedTrainingCb |-> callback]
    ELSE IF /\ TypeOf(optionsOrCallback) = "object"
            /\ TypeOf(optionsOrWhileTraining) = "function"
    THEN [options |-> optionsOrCallback,
          whileTrainingCb |-> Null,
          finishedTrainingCb |-> optionsOrWhileTraining]
    ELSE IF /\ TypeOf(optionsOrCallback) = "function"
            /\ TypeOf(optionsOrWhileTraining) = "function"
    THEN [options |-> EmptyObject,
          whileTrainingCb |-> optionsOrCallback,
          finishedTrainingCb |-> optionsOrWhileTraining]
    ELSE [options |-> EmptyObject,
          whileTrainingCb |-> Null,
          finishedTrainingCb |-> optionsOrCallback]

\* train(optionsOrCallback, optionsOrWhileTraining, callback)
train(optionsOrCallback, optionsOrWhileTraining, callback) ==
    /\ Len(nnTrainCalls) < MaxTrainCalls
    /\ nnTrainCalls' = Append(nnTrainCalls,
           [args |-> <<optionsOrCallback, optionsOrWhileTraining, callback>>,
            trainInternal |-> TrainInternalArgs(optionsOrCallback,
                                                optionsOrWhileTraining, callback)])
    /\ UNCHANGED notNnVars

NextNN ==
    \E k1 \in TrainArgKinds, k2 \in TrainArgKinds, k3 \in TrainArgKinds :
        train(TrainArg(k1, 1), TrainArg(k2, 2), TrainArg(k3, 3))

\* ------------------------------------------ DiyNeuralNetwork: an instance

\* A JavaScript value: its kind and what tells it from others of the kind
\* (the digits of a number, the elements of an array of strings, the
\* position of a function among the arguments).
Val(kind, v) == [kind |-> kind, v |-> v]
Undef == Val("undefined", << >>)
NullVal == Val("null", << >>)
Num(n) == Val("number", <<n>>)
Str(t) == Val("string", <<t>>)
Arr(elements) == Val("array", elements)
Fn(name) == Val("function", <<name>>)
Bool(b) == Val("boolean", <<b>>)

\* An options object: props are its own properties.
Obj(props) == [kind |-> "object", v |-> << >>, props |-> props]

\* DEFAULTS of the neural network.
NN_DEFAULTS ==
    [inputs |-> Arr(<< >>), outputs |-> Arr(<< >>), dataUrl |-> NullVal,
     modelUrl |-> NullVal, layers |-> Arr(<< >>), task |-> NullVal,
     debug |-> Bool("false"), learningRate |-> Num("0.2"),
     hiddenUnits |-> Num("16")]

\* The options objects a caller passes to neuralNetwork().
NNOptionObjects ==
    { Obj([inputs |-> Arr(<<"x", "y">>), outputs |-> Arr(<<"label">>)]),
      Obj([inputs |-> Num("2"), outputs |-> Num("1"), task |-> Str("regression")]),
      Obj([modelUrl |-> Str("model/model.json")]),
      Obj([dataUrl |-> Str("data.csv"), inputs |-> Arr(<<"x", "y">>),
           outputs |-> Arr(<<"label">>)]),
      Obj([dataUrl |-> Str("data.csv"), modelUrl |-> Str("model/model.json")]) }

\* The arguments of neuralNetwork(inputsOrOptions, outputsOrCallback, callback).
InputsOrOptions == NNOptionObjects \cup { Num("2"), Arr(<<"x", "y">>) }
OutputsOrCallback == { Num("1"), Arr(<<"label">>), Fn("outputsOrCallback"), Undef }
FactoryCallbackArg == { Fn("callback"), Undef }

\* x instanceof Object: true of objects, arrays and functions.
InstanceOfObject(x) == x.kind \in {"object", "array", "function"}

\* The own enumerable properties a spread ...x copies: those of an object,
\* the elements of an array under their indices, none of a function.
RECURSIVE ArrayProps(_)
ArrayProps(elements) ==
    IF elements = << >> THEN [k \in {} |-> Undef]
    ELSE LET head == ArrayProps(SubSeq(elements, 1, Len(elements) - 1))
             key == ToString(Len(elements) - 1)
         IN  [k \in DOMAIN head \cup {key} |->
                 IF k = key THEN Str(elements[Len(elements)]) ELSE head[k]]

OwnProps(x) ==
    IF x.kind = "object" THEN x.props
    ELSE IF x.kind = "array" THEN ArrayProps(x.v)
    ELSE [k \in {} |-> Undef]

\* { ...a, ...b } on property maps.
Spread(a, b) ==
    [k \in DOMAIN a \cup DOMAIN b |-> IF k \in DOMAIN b THEN b[k] ELSE a[k]]

\* The options neuralNetwork() hands to the constructor.
NNFactoryOptions(inputsOrOptions, outputsOrCallback) ==
    IF InstanceOfObject(inputsOrOptions) THEN OwnProps(inputsOrOptions)
    ELSE [inputs |-> inputsOrOptions, outputs |-> outputsOrCallback]

\* The callback neuralNetwork() hands to the constructor.
NNFactoryCallback(inputsOrOptions, outputsOrCallback, callback) ==
    IF InstanceOfObject(inputsOrOptions) THEN outputsOrCallback ELSE callback

DnnInit ==
    /\ dnnPhase = "none"
    /\ dnnArgs = <<Undef, Undef, Undef>>
    /\ dnnOptions = NN_DEFAULTS
    /\ dnnCallback = Undef
    /\ dnnReady = "false"
    /\ dnnLoad = "none"
    /\ dnnCtorLog = << >>
    /\ dnnSaves = << >>

\* What init() starts: the data load, the model load, or nothing.
InitLoad(options) ==
    IF options.dataUrl # NullVal THEN "data"
    ELSE IF options.modelUrl # NullVal THEN "model"
    ELSE "none"

\* this.ready as init() leaves it: the promise of callCallback for a data
\* load; the promise of the async load(), which awaits nothing and returns
\* nothing, so that it is fulfilled when load() returns; true otherwise.
InitReady(options) ==
    IF options.dataUrl # NullVal THEN "pending"
    ELSE IF options.modelUrl # NullVal THEN "fulfilled"
    ELSE "true"

\* neuralNetwork(inputsOrOptions, outputsOrCallback, callback): the arguments
\* are sorted out and new DiyNeuralNetwork(options, cb) merges the options
\* with DEFAULTS and runs init(), which starts a load up to its first await.
neuralNetwork(inputsOrOptions, outputsOrCallback, callback) ==
    /\ dnnPhase = "none"
    /\ dnnPhase' = "constructed"
    /\ dnnArgs' = <<inputsOrOptions, outputsOrCallback, callback>>
    /\ LET options == Spread(NN_DEFAULTS,
                             NNFactoryOptions(inputsOrOptions, outputsOrCallback))
       IN  /\ dnnOptions' = options
           /\ dnnLoad' = InitLoad(options)
           /\ dnnReady' = InitReady(options)
    /\ dnnCallback' = NNFactoryCallback(inputsOrOptions, outputsOrCallback, callback)
    /\ UNCHANGED <<dnnCtorLog, dnnSaves>>
    /\ UNCHANGED notDnnVars

\* The calls of the constructor callback once it is called: calling a value
\* that is no function is a TypeError and no call.
CallCtorCallback ==
    IF dnnCallback.kind = "function" THEN Append(dnnCtorLog, dnnCallback)
    ELSE dnnCtorLog

\* neuralNetworkData.loadDataFromUrl resolves: loadDataInternal creates the
\* metadata, prepares the data and returns, and callCallback calls the
\* callback.
DnnDataLoaded ==
    /\ dnnLoad = "data"
    /\ dnnLoad' = "done"
    /\ dnnReady' = "fulfilled"
    /\ dnnCtorLog' = CallCtorCallback
    /\ UNCHANGED <<dnnPhase, dnnArgs, dnnOptions, dnnCallback, dnnSaves>>
    /\ UNCHANGED notDnnVars

\* neuralNetwork.load(filesOrPath, ...) has loaded the model: its callback
\* starts neuralNetworkData.loadMeta(filesOrPath, callback).
DnnModelLoaded ==
    /\ dnnLoad = "model"
    /\ dnnLoad' = "meta"
    /\ UNCHANGED <<dnnPhase, dnnArgs, dnnOptions, dnnCallback, dnnReady, dnnCtorLog,
                   dnnSaves>>
    /\ UNCHANGED notDnnVars

\* loadMeta has loaded the metadata: it sets this.meta, isMetadataReady and
\* isWarmedUp and calls the callback.
DnnMetaLoaded ==
    /\ dnnLoad = "meta"
    /\ dnnLoad' = "done"
    /\ dnnCtorLog' = CallCtorCallback
    /\ isMetadataReady' = TRUE
    /\ isWarmedUp' = TRUE
    /\ UNCHANGED <<dnnPhase, dnnArgs, dnnOptions, dnnCallback, dnnReady, dnnSaves>>
    /\ UNCHANGED <<dataTraining, trnCalls>>
    /\ UNCHANGED <<cocoVars, bpVars, knnVars, nnVars, feVars, nndVars>>

\* A load fails: the data load rejects this.ready and callCallback hands the
\* error to the callback; a failed model or metadata load ends the chain of
\* callbacks and nobody is told.
DnnLoadFailed ==
    /\ dnnLoad \in {"data", "model", "meta"}
    /\ dnnLoad' = "failed"
    /\ dnnReady' = IF dnnLoad = "data" THEN "rejected" ELSE dnnReady
    /\ dnnCtorLog' = IF dnnLoad = "data" THEN CallCtorCallback ELSE dnnCtorLog
    /\ UNCHANGED <<dnnPhase, dnnArgs, dnnOptions, dnnCallback, dnnSaves>>
    /\ UNCHANGED notDnnVars

\* The arguments of save(nameOrCb, cb).
SaveNameOrCb == { Str("myModel"), Fn("nameOrCb"), Undef }
SaveCb == { Fn("cb"), Undef }

\* The model name and the callback save(), NeuralNetwork.save() and
\* saveMeta() each take from their arguments.
SaveModelName(nameOrCb) ==
    IF nameOrCb.kind = "string" THEN nameOrCb.v[1] ELSE "model"

SaveCallback(nameOrCb, cb) ==
    IF nameOrCb.kind = "function" THEN nameOrCb
    ELSE IF nameOrCb.kind = "string" /\ cb.kind = "function" THEN cb
    ELSE Undef

\* saveBlob(data, name, type) of utils/io: the file `name` is saved when its
\* promise is fulfilled.
saveBlob(files, modelName, suffix) == Append(files, <<modelName, suffix>>)

\* if (callback) callback(): the calls made of the user's callback, each with
\* the files saved at the time.
CallSaveCallback(save) ==
    IF save.callback.kind = "function" THEN Append(save.cbLog, save.files)
    ELSE save.cbLog

\* save(nameOrCb, cb): this.neuralNetwork.save(modelName, ...) hands its save
\* handler to model.save().
DnnSave(nameOrCb, cb) ==
    /\ dnnPhase = "constructed"
    /\ Len(dnnSaves) < MaxModelSaves
    /\ dnnSaves' = Append(dnnSaves,
           [modelName |-> SaveModelName(nameOrCb),
            callback |-> SaveCallback(nameOrCb, cb),
            pc |-> "handler", files |-> << >>, cbLog |-> << >>])
    /\ UNCHANGED <<dnnPhase, dnnArgs, dnnOptions, dnnCallback, dnnReady, dnnLoad,
                   dnnCtorLog>>
    /\ UNCHANGED notDnnVars

\* The save handler of NeuralNetwork.save after its await of the saveBlob of
\* the weights: the weights file is saved and the saveBlob of the model file
\* is awaited.
DnnWeightsSaved(i) ==
    /\ i \in 1..Len(dnnSaves)
    /\ dnnSaves[i].pc = "handler"
    /\ dnnSaves' = [dnnSaves EXCEPT
           ![i].files = saveBlob(@, dnnSaves[i].modelName, ".weights.bin"),
           ![i].pc = "weights"]
    /\ UNCHANGED <<dnnPhase, dnnArgs, dnnOptions, dnnCallback, dnnReady, dnnLoad,
                   dnnCtorLog>>
    /\ UNCHANGED notDnnVars

\* What the callback save() gave NeuralNetwork.save does: it starts
\* saveMeta(modelName, callback), which runs to its await of saveBlob.
ModelSavedCallbackMutant(save) ==
    [save EXCEPT !.pc = "meta", !.cbLog = CallSaveCallback(save)]
ModelSavedCallback(save) == [save EXCEPT !.pc = "meta"]

\* The save handler after its await of the saveBlob of the model file: the
\* file is saved and the callback of NeuralNetwork.save is called.
DnnModelSaved(i) ==
    /\ i \in 1..Len(dnnSaves)
    /\ dnnSaves[i].pc = "weights"
    /\ dnnSaves' = [dnnSaves EXCEPT
           ![i] = ModelSavedCallback(
                      [@ EXCEPT !.files = saveBlob(@, dnnSaves[i].modelName, ".json")])]
    /\ UNCHANGED <<dnnPhase, dnnArgs, dnnOptions, dnnCallback, dnnReady, dnnLoad,
                   dnnCtorLog>>
    /\ UNCHANGED notDnnVars

\* saveMeta after its await of saveBlob: the metadata file is saved and the
\* user's callback is called.
DnnMetaSaved(i) ==
    /\ i \in 1..Len(dnnSaves)
    /\ dnnSaves[i].pc = "meta"
    /\ LET saved == [dnnSaves[i] EXCEPT
                        !.files = saveBlob(@, dnnSaves[i].modelName, "_meta.json")]
       IN  dnnSaves' = [dnnSaves EXCEPT
               ![i] = [saved EXCEPT !.pc = "done", !.cbLog = CallSaveCallback(saved)]]
    /\ UNCHANGED <<dnnPhase, dnnArgs, dnnOptions, dnnCallback, dnnReady, dnnLoad,
                   dnnCtorLog>>
    /\ UNCHANGED notDnnVars

\* model.save() or a saveBlob() rejects: nothing more is saved, nobody is told.
DnnSaveFailed(i) ==
    /\ i \in 1..Len(dnnSaves)
    /\ dnnSaves[i].pc \in {"handler", "weights", "meta"}
    /\ dnnSaves' = [dnnSaves EXCEPT ![i].pc = "failed"]
    /\ UNCHANGED <<dnnPhase, dnnArgs, dnnOptions, dnnCallback, dnnReady, dnnLoad,
                   dnnCtorLog>>
    /\ UNCHANGED notDnnVars

NextDNN ==
    \/ \E a1 \in InputsOrOptions, a2 \in OutputsOrCallback, a3 \in FactoryCallbackArg :
           neuralNetwork(a1, a2, a3)
    \/ DnnDataLoaded
    \/ DnnModelLoaded
    \/ DnnMetaLoaded
    \/ DnnLoadFailed
    \/ \E nameOrCb \in SaveNameOrCb, cb \in SaveCb : DnnSave(nameOrCb, cb)
    \/ \E i \in 1..MaxModelSaves : DnnWeightsSaved(i)
    \/ \E i \in 1..MaxModelSaves : DnnModelSaved(i)
    \/ \E i \in 1..MaxModelSaves : DnnMetaSaved(i)
    \/ \E i \in 1..MaxModelSaves : DnnSaveFailed(i)

\* ------------------------------------------ DiyNeuralNetwork.addData

\* The arguments of addData(xInputs, yInputs, options): a row as an array of
\* values, as an object keyed by label, or a lone number; options left out
\* (null by default) or an object with inputLabels and outputLabels.
XInputs == { Arr(<<"1", "2">>), Obj([x |-> Num("1"), y |-> Num("2")]), Num("1") }
YInputs == { Arr(<<"a">>), Obj([label |-> Str("a")]) }
AddDataOptions ==
    { NullVal, Obj([inputLabels |-> Arr(<<"r", "g">>), outputLabels |-> Arr(<<"l">>)]) }

NoAddData ==
    [called |-> FALSE, xInputs |-> Undef, yInputs |-> Undef, options |-> NullVal,
     inputLabels |-> Undef, outputLabels |-> Undef, error |-> "none"]

NndInit ==
    /\ nndRaw = << >>
    /\ nndCall = NoAddData
    /\ nndCount = 0

\* x.length > 0: of the values of the model only a non-empty array has a
\* length above 0 (a number has no length, and undefined > 0 is false).
LengthAboveZero(x) == x.kind = "array" /\ Len(x.v) > 0

\* item instanceof String: true of a String object only.  The elements of
\* the arrays of the model are string primitives, as in ['x', 'y'], and a
\* primitive is an instance of nothing.
InstanceOfString(item) == FALSE

\* labels.every(item => item instanceof String)
EveryInstanceOfString(labels) ==
    \A i \in 1..Len(labels.v) : InstanceOfString(labels.v[i])

\* typeof x === "object"
TypeOfObject(x) == x.kind \in {"object", "array", "null"}

\* Object.keys(x) as an array: the indices of an array, the keys of an object
\* in the order they were given.
KeyOrder == <<"0", "1", "x", "y", "label">>
IsOwnKey(x, k) == k \in DOMAIN OwnProps(x)
ObjectKeys(x) == Arr(SelectSeq(KeyOrder, LAMBDA k : IsOwnKey(x, k)))

\* createLabelsFromArrayValues(incoming, prefix): prefix_0, prefix_1, ... for
\* an array and undefined for anything else.
createLabelsFromArrayValues(incoming, prefix) ==
    IF incoming.kind = "array"
    THEN Arr([i \in 1..Len(incoming.v) |-> prefix \o "_" \o ToString(i - 1)])
    ELSE Undef

\* The labels addData settles on, index.js 155-179.
AddDataLabels(ctorLabels, otherCtorLabels, given, xInputs, yInputs, own, prefix) ==
    IF given # Undef THEN given
    ELSE IF LengthAboveZero(ctorLabels) /\ LengthAboveZero(otherCtorLabels)
    THEN IF EveryInstanceOfString(ctorLabels) THEN ctorLabels ELSE Undef
    ELSE IF TypeOfObject(xInputs) /\ TypeOfObject(yInputs) THEN ObjectKeys(own)
    ELSE createLabelsFromArrayValues(own, prefix)

\* The labels of the options argument, undefined where there is none.
GivenLabels(options, key) ==
    IF options = NullVal THEN Undef
    ELSE IF key \in DOMAIN options.props THEN options.props[key]
    ELSE Undef

\* The object made of a row: an array's values under the labels, in order (a
\* value beyond the labels under "undefined"); an object as it is.
RowKey(labels, i) == IF i <= Len(labels.v) THEN labels.v[i] ELSE "undefined"
RowKeys(incoming, labels) == { RowKey(labels, i) : i \in 1..Len(incoming.v) }
LastAt(incoming, labels, k) ==
    CHOOSE i \in 1..Len(incoming.v) :
        /\ RowKey(labels, i) = k
        /\ \A j \in 1..Len(incoming.v) : RowKey(labels, j) = k => j <= i
formatDataAsObject(incoming, labels) ==
    IF incoming.kind = "array"
    THEN [k \in RowKeys(incoming, labels) |-> Str(incoming.v[LastAt(incoming, labels, k)])]
    ELSE incoming.props

\* Whether formatDataAsObject takes the value: an array or an object.
Formattable(incoming) == incoming.kind \in {"array", "object"}

\* The error addData ends with, "none" when it returns.
AddDataError(inputLabels, outputLabels, xInputs, yInputs) ==
    IF inputLabels.kind # "array" THEN "inputLabels must be an array"
    ELSE IF outputLabels.kind # "array" THEN "outputLabels must be an array"
    ELSE IF ~(Formattable(xInputs) /\ Formattable(yInputs))
    THEN "input provided is not supported or does not match your output label specifications"
    ELSE "none"

\* addData(xInputs, yInputs, options = null) of index.js: the labels come
\* from the options, else from the constructor's inputs and outputs, else
\* from the row; a row whose labels are no arrays is refused with an error;
\* the row is made an object { xs, ys } and pushed on data.raw.
addData(xInputs, yInputs, options) ==
    /\ dnnPhase = "constructed"
    /\ nndCount < MaxAddData
    /\ nndCount' = nndCount + 1
    /\ LET inputLabels ==
               AddDataLabels(dnnOptions.inputs, dnnOptions.outputs,
                             GivenLabels(options, "inputLabels"),
                             xInputs, yInputs, xInputs, "input")
           outputLabels ==
               AddDataLabels(dnnOptions.outputs, dnnOptions.inputs,
                             GivenLabels(options, "outputLabels"),
                             xInputs, yInputs, yInputs, "output")
           error == AddDataError(inputLabels, outputLabels, xInputs, yInputs)
       IN  /\ nndCall' = [called |-> TRUE, xInputs |-> xInputs,
                          yInputs |-> yInputs, options |-> options,
                          inputLabels |-> inputLabels,
                          outputLabels |-> outputLabels, error |-> error]
           /\ nndRaw' = IF error = "none"
                        THEN Append(nndRaw,
                                 [xs |-> formatDataAsObject(xInputs, inputLabels),
                                  ys |-> formatDataAsObject(yInputs, outputLabels)])
                        ELSE nndRaw
    /\ UNCHANGED notNndVars

\* addData of the DiyNeuralNetwork of part_002, which hands the row and the
\* labels to NeuralNetworkData.addData: the labels come from the options,
\* else from the constructor's inputs and outputs as they are; without both,
\* NeuralNetworkData.addData makes them with createLabelsFromArrayValues.
DataLabels(ctorLabels, otherCtorLabels, given) ==
    IF given # Undef THEN given
    ELSE IF LengthAboveZero(ctorLabels) /\ LengthAboveZero(otherCtorLabels)
    THEN ctorLabels
    ELSE Undef

addDataPart002(xInputs, yInputs, options) ==
    /\ dnnPhase = "constructed"
    /\ nndCount < MaxAddData
    /\ nndCount' = nndCount + 1
    /\ LET inL == DataLabels(dnnOptions.inputs, dnnOptions.outputs,
                             GivenLabels(options, "inputLabels"))
           outL == DataLabels(dnnOptions.outputs, dnnOptions.inputs,
                              GivenLabels(options, "outputLabels"))
           withOptions == inL # Undef /\ outL # Undef
           inputLabels == IF withOptions THEN inL
                          ELSE createLabelsFromArrayValues(xInputs, "input")
           outputLabels == IF withOptions THEN outL
                           ELSE createLabelsFromArrayValues(yInputs, "output")
           error == IF Formattable(xInputs) /\ Formattable(yInputs) THEN "none"
                    ELSE "input provided is not supported or does not match your output label specifications"
       IN  /\ nndCall' = [called |-> TRUE, xInputs |-> xInputs,
                          yInputs |-> yInputs, options |-> options,
                          inputLabels |-> inputLabels,
                          outputLabels |-> outputLabels, error |-> error]
           /\ nndRaw' = IF error = "none"
                        THEN Append(nndRaw,
                                 [xs |-> formatDataAsObject(xInputs, inputLabels),
                                  ys |-> formatDataAsObject(yInputs, outputLabels)])
                        ELSE nndRaw
    /\ UNCHANGED notNndVars

NextAddDataPart002 ==
    \/ \E inputsOrOptions \in InputsOrOptions,
          outputsOrCallback \in OutputsOrCallback, callback \in FactoryCallbackArg :
          neuralNetwork(inputsOrOptions, outputsOrCallback, callback)
    \/ \E xInputs \in XInputs, yInputs \in YInputs, options \in AddDataOptions :
          addDataPart002(xInputs, yInputs, options)

NextAddData ==
    \/ \E inputsOrOptions \in InputsOrOptions,
          outputsOrCallback \in OutputsOrCallback, callback \in FactoryCallbackArg :
          neuralNetwork(inputsOrOptions, outputsOrCallback, callback)
    \/ \E xInputs \in XInputs, yInputs \in YInputs, options \in AddDataOptions :
          addData(xInputs, yInputs, options)

\* ------------------------- DiyNeuralNetwork: the training data of train()

\* A row of this.data.training and of the tensors made of it: index is the
\* place in data.raw of the row it was made of, form tells the one-hot
\* encoded row from the normalized one.
TrnInit ==
    /\ dataTraining = << >>
    /\ isMetadataReady = FALSE
    /\ isWarmedUp = FALSE
    /\ trnCalls = << >>

\* applyOneHotEncodingsToDataRaw(dataRaw) and normalizeDataRaw(dataRaw): a
\* new array with one row for every row of dataRaw, in order.
MapRows(dataRaw, form) ==
    [i \in 1..Len(dataRaw) |-> [index |-> i, form |-> form]]

\* createMetadata reads the first row of dataRaw, which is a TypeError on an
\* empty data.raw.
MetadataThrows == ~isMetadataReady /\ nndRaw = << >>

\* trainInternal, before it makes the metadata, calls inputs.every(...) on
\* the constructor's inputs, which is a TypeError unless they are an array.
TrainMetadataThrows ==
    ~isMetadataReady /\ (dnnOptions.inputs.kind # "array" \/ nndRaw = << >>)

\* this.data.training after prepareForTraining, which runs only while the
\* data are not warmed up.
AfterWarmUp == IF ~isWarmedUp THEN MapRows(nndRaw, "encoded") ELSE dataTraining

\* normalizeData(): the metadata are made unless ready, the data are warmed
\* up unless they were, and this.data.training becomes the normalized data.raw.
normalizeData ==
    /\ dnnPhase = "constructed"
    /\ IF MetadataThrows
       THEN UNCHANGED <<dataTraining, isMetadataReady, isWarmedUp>>
       ELSE /\ isMetadataReady' = TRUE
            /\ isWarmedUp' = TRUE
            /\ dataTraining' = MapRows(nndRaw, "normalized")
    /\ UNCHANGED trnCalls
    /\ UNCHANGED notTrnVars

\* trainInternal(options, ...): the metadata are made unless ready, the data
\* are warmed up unless they were, and unless the options bring inputs and
\* outputs of their own the tensors are made of this.data.training and handed
\* to this.neuralNetwork.train.
trainInternal(ownTensors) ==
    /\ dnnPhase = "constructed"
    /\ Len(trnCalls) < MaxTrainings
    /\ IF TrainMetadataThrows
       THEN /\ trnCalls' = Append(trnCalls,
                [error |-> "TypeError", ownTensors |-> ownTensors,
                 rawLength |-> Len(nndRaw), rows |-> << >>])
            /\ UNCHANGED <<dataTraining, isMetadataReady, isWarmedUp>>
       ELSE /\ isMetadataReady' = TRUE
            /\ isWarmedUp' = TRUE
            /\ dataTraining' = AfterWarmUp
            /\ trnCalls' = Append(trnCalls,
                [error |-> "none", ownTensors |-> ownTensors,
                 rawLength |-> Len(nndRaw),
                 rows |-> IF ownTensors THEN << >> ELSE AfterWarmUp])
    /\ UNCHANGED notTrnVars

NextTraining ==
    \/ \E inputsOrOptions \in InputsOrOptions,
          outputsOrCallback \in OutputsOrCallback, callback \in FactoryCallbackArg :
          neuralNetwork(inputsOrOptions, outputsOrCallback, callback)
    \/ \E xInputs \in XInputs, yInputs \in YInputs, options \in AddDataOptions :
          addData(xInputs, yInputs, options)
    \/ normalizeData
    \/ \E ownTensors \in BOOLEAN : trainInternal(ownTensors)

\* ------------------------------------------- NeuralNetworkData.findEntries

\* JSON values: an array, told from others by the path it is found at, a
\* string, and an object with its properties.
JsonArray(path) == [kind |-> "array", path |-> path, props |-> << >>]
JsonString == [kind |-> "string", path |-> << >>, props |-> << >>]
JsonObject(props) == [kind |-> "object", path |-> << >>, props |-> props]
NoJson == [kind |-> "none", path |-> << >>, props |-> << >>]

\* A property left out of an object.
Absent == [kind |-> "undefined", path |-> << >>, props |-> << >>]

\* The JSON objects nested at most `depth` deep below `path`: entries is left
\* out, an array or a string; data is left out or an array; nested is left
\* out or an object.
RECURSIVE JsonObjects(_, _)
JsonObjects(depth, path) ==
    { JsonObject([entries |-> e, data |-> d, nested |-> n]) :
        e \in {Absent, JsonArray(path \o <<"entries">>), JsonString},
        d \in {Absent, JsonArray(path \o <<"data">>)},
        n \in {Absent} \cup (IF depth = 0 THEN {}
                             ELSE JsonObjects(depth - 1, path \o <<"nested">>)) }

\* Object.keys of an object.
JsonKeys(json) == {k \in DOMAIN json.props : json.props[k] # Absent}

\* typeof x === 'object'
JsonTypeOfObject(json) == json.kind \in {"object", "array"}

\* findEntries(_data): the entries array or else the data array of the
\* object; the callback of keys.forEach calls findEntries on every property
\* that is an object, and forEach drops what it returns; the copy of the
\* object is returned.
RECURSIVE findEntries(_)
findEntries(_data) ==
    LET parentCopy == _data
        each == [k \in {k \in JsonKeys(parentCopy) :
                          JsonTypeOfObject(parentCopy.props[k])} |->
                    findEntries(parentCopy.props[k])]
    IN  IF parentCopy.kind # "object" THEN parentCopy
        ELSE IF parentCopy.props.entries.kind = "array" THEN parentCopy.props.entries
        ELSE IF parentCopy.props.data.kind = "array" THEN parentCopy.props.data
        ELSE parentCopy

\* findEntries is about to be called with a JSON object.
FeInit ==
    /\ feData \in JsonObjects(MaxDepth, << >>)
    /\ feResult = NoJson

\* No call of findEntries is under way.
FeIdle ==
    /\ feData = NoJson
    /\ feResult = NoJson

\* findEntries(json) is called.
FindEntries ==
    /\ feData # NoJson
    /\ feResult = NoJson
    /\ feResult' = findEntries(feData)
    /\ UNCHANGED feData
    /\ UNCHANGED notFeVars

NextFE == FindEntries

\* ------------------------------------------------------ specifications

vars == <<cocoVars, bpVars, knnVars, nnVars, dnnVars, feVars, nndVars, trnVars>>

Init == CocoInit /\ BpInit /\ KnnInit /\ NnInit /\ DnnInit /\ FeIdle /\ NndInit
            /\ TrnInit

\* The wrappers untouched and findEntries about to be called.
InitFE == CocoInit /\ BpInit /\ KnnInit /\ NnInit /\ DnnInit /\ FeInit /\ NndInit
              /\ TrnInit

SpecCocoSsd == Init /\ [][NextCocoSsd]_vars

SpecBodyPix == Init /\ [][NextBodyPix]_vars
SpecBodyPixVideo == Init /\ [][NextBodyPixVideo]_vars

SpecKNN == Init /\ [][NextKNN]_vars
SpecKNNLabels == Init /\ [][NextKNNLabels]_vars

SpecNN == Init /\ [][NextNN]_vars

SpecDNN == Init /\ [][NextDNN]_vars

SpecFE == InitFE /\ [][NextFE]_vars

SpecAddData == Init /\ [][NextAddData]_vars
SpecAddDataPart002 == Init /\ [][NextAddDataPart002]_vars

SpecTraining == Init /\ [][NextTraining]_vars

\* A program that uses one of the two model wrappers, which share no state.
NextWrappers ==
    \/ cocoPhase = "none" /\ NextBodyPix
    \/ bpPhase = "none" /\ NextCocoSsd

SpecWrappers == Init /\ [][NextWrappers]_vars

\* ------------------------------------------------------------------ claims

\* C1: bodyPix() returns the instance when one of its arguments is a callback
\* function; with no callback it returns the ready promise, and that promise
\* is fulfilled with the instance only once the model is stored in
\* this.model and this.modelReady is true.
C1_FactoryReturn ==
    bpPhase = "constructed" =>
        /\ bpArgs.anyFunction => bpReturned = "instance"
        /\ ~bpArgs.anyFunction =>
               /\ bpReturned = "ready"
               /\ bpReady.state = "fulfilled" =>
                      /\ bpReady.value = "instance"
                      /\ bpModel = "loaded"
                      /\ bpModelReady

C1_Witness ==
    /\ bpPhase = "constructed"
    /\ ~bpArgs.anyFunction
    /\ bpReturned = "ready"
    /\ bpReady.state = "fulfilled"

\* C2: every call a wrapper makes on its underlying model (BodyPix's
\* estimatePersonSegmentation / estimatePartSegmentation, CocoSsd's
\* cocoSsdModel.detect) is made when the load started in the constructor has
\* stored the model, however the user's calls interleave with the load.
C2_ModelCalledAfterLoad ==
    /\ \A k \in 1..Len(bpEstimates) :
           bpEstimates[k].modelLoaded /\ bpModel = "loaded" /\ bpLoad = "done"
    /\ \A k \in 1..Len(cocoModelCalls) :
           cocoModelCalls[k].modelLoaded /\ cocoSsdModel = "loaded"

C2_Witness ==
    \E k \in 1..Len(bpEstimates) :
        /\ bpCalls[bpEstimates[k].call].beforeLoad
        /\ bpEstimates[k].fn = "segmentWithParts"

\* C3: a detect(subject, callback) call that has run to its end has called
\* the callback exactly once: with the formatted predictions when the
\* detection succeeded, with the error when the load or the detection failed.
C3_CallbackOnce ==
    \A i \in 1..Len(cocoCalls) :
        (cocoCalls[i].hasCb /\ cocoCalls[i].pc = "done") =>
            /\ Len(cocoCalls[i].cbLog) = 1
            /\ cocoCalls[i].promise = "fulfilled" =>
                   /\ cocoCalls[i].cbLog[1].kind = "result"
                   /\ cocoCalls[i].cbLog[1].result = cocoCalls[i].formatted
            /\ cocoCalls[i].promise = "rejected" =>
                   /\ cocoCalls[i].cbLog[1].kind = "error"
                   /\ cocoCalls[i].cbLog[1].err = cocoCalls[i].error

\* q is the JavaScript quotient a / b: Infinity or NaN when b is 0, else the
\* fraction in lowest terms with q.num * b = a * q.den.
IsQuotient(q, a, b) ==
    IF b = 0 THEN q = [num |-> IF a = 0 THEN 0 ELSE 1, den |-> 0]
    ELSE q.den > 0 /\ q.num * b = a * q.den /\ Gcd(q.num, q.den) = 1

\* C4: the predictions detect() formats are one per raw prediction, in the
\* same order: entry j has the label, the score and the bounding box of raw
\* prediction j, x and w divided by subject.width, y and h by subject.height;
\* and they are what a successful call resolves to.
C4_FormattedPredictions ==
    \A i \in 1..Len(cocoCalls) :
        cocoCalls[i].pc \in {"formatted", "done"} /\ cocoCalls[i].promise # "rejected" =>
            LET c == cocoCalls[i]
            IN  /\ Len(c.formatted) = Len(c.raw)
                /\ \A j \in 1..Len(c.raw) :
                       /\ c.formatted[j].label = c.raw[j].class
                       /\ c.formatted[j].confidence = c.raw[j].score
                       /\ IsQuotient(c.formatted[j].x, c.raw[j].bbox[1], c.subject.width)
                       /\ IsQuotient(c.formatted[j].y, c.raw[j].bbox[2], c.subject.height)
                       /\ IsQuotient(c.formatted[j].w, c.raw[j].bbox[3], c.subject.width)
                       /\ IsQuotient(c.formatted[j].h, c.raw[j].bbox[4], c.subject.height)
                /\ (c.promise = "fulfilled" /\ c.hasCb) =>
                       c.cbLog = << [kind |-> "result", err |-> "undefined",
                                     result |-> c.formatted] >>

C4_Witness ==
    \E i \in 1..Len(cocoCalls) :
        /\ cocoCalls[i].promise = "fulfilled"
        /\ Len(cocoCalls[i].raw) = 2
        /\ cocoCalls[i].raw[1] # cocoCalls[i].raw[2]
        /\ cocoCalls[i].subject.width = 2

\* C5: a segment() / segmentWithParts() call on an instance without a video,
\* whose first argument is undefined, a callback function or an unsupported
\* value, is rejected with the 'No input image provided...' error and makes
\* no call on the underlying model.
C5_NoInputFails ==
    \A i \in 1..Len(bpCalls) :
        (~bpVideo.present
           /\ bpCalls[i].arg1 \in {"undefined", "function", "number", "plainObject"}) =>
            /\ bpCalls[i].promise = "rejected"
            /\ bpCalls[i].error = NoInputError
            /\ \A k \in 1..Len(bpEstimates) : bpEstimates[k].call # i

\* C6: a classify() call made when getNumClasses() is <= 0 fails with the
\* error 'There is no example in any class', handed to the callback when one
\* is given and else only rejecting the returned promise, and no call waits
\* for, or has made, the underlying predictClass with no class to predict.
C6_NoExampleFails ==
    /\ \A i \in 1..Len(knnInFlight) : knnInFlight[i].numClass > 0
    /\ (knnSettled.promise # "pending" /\ knnSettled.numClass <= 0) =>
           /\ knnSettled.promise = "rejected"
           /\ knnSettled.error = NoExampleError
           /\ ~knnSettled.predictCalled
           /\ knnSettled.cbLog =
                  IF knnSettled.hasCb
                  THEN << [kind |-> "error", err |-> NoExampleError, result |-> << >>] >>
                  ELSE << >>

C6_Witness ==
    /\ knnSettled.promise = "rejected"
    /\ knnSettled.after = "clearAllLabels"
    /\ knnSettled.hasCb

\* C7: addExample called with a number n passes n as the class index to the
\* underlying classifier's addExample.
C7_NumericClassIndexPassed ==
    (knnCall.op = "addExample" /\ knnCall.type = "number") =>
        knnCall.classIndex = knnCall.number

\* C8: with a label in mapStringToIndex, the result a classify() call
\* resolves to has the label registered for the class it predicts, and its
\* confidencesByLabel has, for every index i of confidences, the entry
\* [mapStringToIndex[i]] = confidences[i], and as many entries as confidences.
C8_ResultLabels ==
    (knnSettled.promise = "fulfilled" /\ Len(mapStringToIndex) > 0) =>
        LET res == knnSettled.res
        IN  /\ res.classIndex \in ClassesOf(knnDataset) =>
                   knnSettled.label = knnDataset[res.classIndex].registered
            /\ knnSettled.hasConfidencesByLabel
            /\ \A i \in DOMAIN res.confidences :
                   /\ At(mapStringToIndex, i) \in DOMAIN knnSettled.confidencesByLabel
                   /\ knnSettled.confidencesByLabel[At(mapStringToIndex, i)]
                          = res.confidences[i]
            /\ Cardinality(DOMAIN knnSettled.confidencesByLabel)
                   = Cardinality(DOMAIN res.confidences)

\* C9: after load() of the file save() wrote, on a classifier built by
\* addExample with string labels and clearLabel, mapStringToIndex and every
\* class's examples are what they were when save() was called.
C9_SaveLoadRestores ==
    (knnCall.op = "load" /\ ~knnSaved.atSave.loadedBefore) =>
        /\ mapStringToIndex = knnSaved.atSave.map
        /\ \A c \in ClassIds :
               knnDataset[c].examples = knnSaved.atSave.dataset[c].examples

\* The arguments of a train() call that are functions.
FunctionArgs(call) == {p \in 1..3 : call.args[p].kind = "function"}

\* C10: trainInternal receives the first argument of train() as its options
\* when that argument is an options object and an empty object otherwise;
\* its finished-training callback is the last argument that is a function,
\* and its while-training callback the function argument before that one,
\* null when there is none.
C10_TrainArguments ==
    \A i \in 1..Len(nnTrainCalls) :
        LET call == nnTrainCalls[i]
            fns == FunctionArgs(call)
            last == CHOOSE p \in fns : \A q \in fns : q <= p
            before == {p \in fns : p < last}
        IN  /\ call.trainInternal.options =
                   IF call.args[1].kind = "object" THEN call.args[1] ELSE EmptyObject
            /\ fns # {} => call.trainInternal.finishedTrainingCb = call.args[last]
            /\ call.trainInternal.whileTrainingCb =
                   IF fns = {} \/ before = {} THEN Null
                   ELSE call.args[CHOOSE p \in before : \A q \in before : q <= p]

\* C11: with an options object as first argument the instance's options are
\* DEFAULTS overridden key by key with it and the constructor callback is the
\* second argument; with inputs and outputs passed by position, as numbers or
\* as arrays of label names, options.inputs and options.outputs are the first
\* and second argument, every other option has its default, and the callback
\* is the third argument.
C11_FactoryOptions ==
    dnnPhase = "constructed" =>
        IF dnnArgs[1].kind = "object"
        THEN /\ DOMAIN dnnOptions = DOMAIN NN_DEFAULTS
             /\ \A k \in DOMAIN NN_DEFAULTS :
                    dnnOptions[k] = IF k \in DOMAIN dnnArgs[1].props
                                    THEN dnnArgs[1].props[k] ELSE NN_DEFAULTS[k]
             /\ dnnCallback = dnnArgs[2]
        ELSE /\ DOMAIN dnnOptions = DOMAIN NN_DEFAULTS
             /\ dnnOptions.inputs = dnnArgs[1]
             /\ dnnOptions.outputs = dnnArgs[2]
             /\ \A k \in DOMAIN NN_DEFAULTS \ {"inputs", "outputs"} :
                    dnnOptions[k] = NN_DEFAULTS[k]
             /\ dnnCallback = dnnArgs[3]

\* C12: the ready promise of an instance constructed with options.modelUrl
\* set and dataUrl null is settled only when the model and its metadata have
\* been loaded.
C12_ReadyAfterLoads ==
    (/\ dnnPhase = "constructed"
     /\ dnnOptions.modelUrl # NullVal
     /\ dnnOptions.dataUrl = NullVal
     /\ dnnReady \in {"fulfilled", "rejected"}) => dnnLoad = "done"

\* The files a save() under `modelName` saves, in the order it saves them.
SavedFiles(modelName) ==
    << <<modelName, ".weights.bin">>, <<modelName, ".json">>,
       <<modelName, "_meta.json">> >>

\* C13: save() calls the user's callback at most once, and only when the
\* weights file, the model file and the metadata file have been saved, in
\* that order.
C13_SaveCallbackLast ==
    \A i \in 1..Len(dnnSaves) :
        /\ Len(dnnSaves[i].cbLog) <= 1
        /\ \A j \in 1..Len(dnnSaves[i].cbLog) :
               dnnSaves[i].cbLog[j] = SavedFiles(dnnSaves[i].modelName)
        /\ dnnSaves[i].files =
               SubSeq(SavedFiles(dnnSaves[i].modelName), 1, Len(dnnSaves[i].files))

C13_Witness ==
    \E i \in 1..Len(dnnSaves) :
        /\ dnnSaves[i].pc = "done"
        /\ dnnSaves[i].modelName = "myModel"
        /\ Len(dnnSaves[i].cbLog) = 1

\* The entries array or else the data array of the object, or else the one
\* found that way in an object nested in it; NoJson when there is none.
RECURSIVE EntriesOf(_)
EntriesOf(json) ==
    IF json.kind # "object" THEN NoJson
    ELSE IF json.props.entries.kind = "array" THEN json.props.entries
    ELSE IF json.props.data.kind = "array" THEN json.props.data
    ELSE LET found == {a \in {EntriesOf(json.props[k]) : k \in JsonKeys(json)} :
                          a # NoJson}
         IN  IF found = {} THEN NoJson ELSE CHOOSE a \in found : TRUE

\* C14: findEntries(json) returns the array under 'entries', else the array
\* under 'data', else the entries or data array of an object nested in json
\* at any depth.
C14_FindEntries ==
    (feResult # NoJson /\ EntriesOf(feData) # NoJson) =>
        feResult = EntriesOf(feData)

\* C15: after construction every key of this.config has the value the caller
\* supplied for it in the options object, and the default when the caller
\* supplied none.
C15_ConfigFromOptions ==
    (bpPhase = "constructed" /\ bpCalls = << >>) =>
        /\ \A k \in {"multiplier", "outputStride", "segmentationThreshold"} :
               bpConfig[k] = IF bpArgs.options[k] # Undefined
                             THEN bpArgs.options[k] ELSE DEFAULTS[k]
        /\ bpConfig.palette = IF bpArgs.options.palette # "undefined"
                              THEN bpArgs.options.palette ELSE DEFAULTS.palette

\* C17: on a video whose readyState was 0, once the video has fired loadeddata
\* no call of segment() or segmentWithParts() is still waiting for it: every
\* pending call, two or more of them included, has gone on towards its model
\* call.
C17_NoCallLeftWaiting ==
    (bpVideo.present /\ bpVideo.readyState # 0) =>
        \A i \in 1..Len(bpCalls) : bpCalls[i].pc # "awaitVideo"

\* The calls whose own options supply both outputStride and
\* segmentationThreshold.
SuppliesBoth(call) ==
    /\ ~call.segmentationOptions.isConfig
    /\ call.segmentationOptions.options.outputStride # Undefined
    /\ call.segmentationOptions.options.segmentationThreshold # Undefined

\* C18: a call that supplies outputStride and segmentationThreshold in its own
\* options passes exactly those two values to the estimate function, however
\* the calls on the instance interleave.
C18_OwnOptionsPassed ==
    \A e \in 1..Len(bpEstimates) :
        SuppliesBoth(bpCalls[bpEstimates[e].call]) =>
            /\ bpEstimates[e].outputStride =
                   bpCalls[bpEstimates[e].call].segmentationOptions.options.outputStride
            /\ bpEstimates[e].segmentationThreshold =
                   bpCalls[bpEstimates[e].call].segmentationOptions.options.segmentationThreshold

C16_AddDataUsesCtorLabels ==
    ( /\ nndCall.called
      /\ nndCall.options = NullVal
      /\ LengthAboveZero(dnnOptions.inputs) /\ LengthAboveZero(dnnOptions.outputs)
      /\ Formattable(nndCall.xInputs) /\ Formattable(nndCall.yInputs) ) =>
        /\ nndCall.error = "none"
        /\ nndCall.inputLabels = dnnOptions.inputs
        /\ nndCall.outputLabels = dnnOptions.outputs
        /\ nndRaw # << >>
        /\ nndRaw[Len(nndRaw)] =
               [xs |-> formatDataAsObject(nndCall.xInputs, dnnOptions.inputs),
                ys |-> formatDataAsObject(nndCall.yInputs, dnnOptions.outputs)]

\* What a step of the classifier keeps, in a program without clearAllLabels
\* and load: no label twice in mapStringToIndex, every label at the index it
\* had, and an addExample with a label passing the label's index.
NoDuplicateLabel(map) ==
    \A i, j \in 1..Len(map) : map[i] = map[j] => i = j

KeepsIndex(map, newMap) ==
    \A l \in Labels : Includes(map, l) =>
        Includes(newMap, l) /\ IndexOf(newMap, l) = IndexOf(map, l)

\* C20: after any sequence of addExample, clearLabel, classify and
\* getCountByLabel calls, mapStringToIndex holds no label twice (so that two
\* labels never share an index), a label keeps the index it was given, and
\* every addExample with a label passes that index to the underlying
\* classifier.
C20_LabelIndexStable ==
    [][ /\ NoDuplicateLabel(mapStringToIndex')
        /\ KeepsIndex(mapStringToIndex, mapStringToIndex')
        /\ (knnCall'.op = "addExample" /\ knnCall'.type = "string") =>
               /\ Includes(mapStringToIndex', knnCall'.label)
               /\ knnCall'.classIndex = IndexOf(mapStringToIndex', knnCall'.label) ]_vars

\* A second addExample with label "a", which was given index 1 after "b" was
\* given index 0 and cleared.
C20_Witness ==
    /\ mapStringToIndex = <<"b", "a">>
    /\ knnCall.op = "addExample" /\ knnCall.label = "a" /\ knnCall.classIndex = 1
    /\ Len(knnDataset[1].examples) = 2
    /\ knnDataset[0].examples = << >>

\* C21: every row that addData had put in data.raw when train was called is
\* among the rows of the tensors that call handed to the model, whatever
\* addData, normalizeData and train calls went before.
C21_RowsInTrainingTensors ==
    \A t \in 1..Len(trnCalls) :
        (trnCalls[t].error = "none" /\ ~trnCalls[t].ownTensors) =>
            \A i \in 1..trnCalls[t].rawLength :
                \E j \in 1..Len(trnCalls[t].rows) : trnCalls[t].rows[j].index = i

====
